---------------------------- MODULE Spec2Model ----------------------------
(***************************************************************************)
(* A model of picocrypto's core: Keccak-256 (baseline and optimized        *)
(* implementations), secp256k1 key derivation and recoverable ECDSA,       *)
(* Ed25519 sign / verify and the BIP-137 signed-message layer.             *)
(*                                                                         *)
(* Byte strings are sequences of 0..255.  A uint64 lane is the set of the  *)
(* positions (0 = least significant) of its one bits, so the permutation   *)
(* runs at its full 1600-bit width.  The two elliptic curves are the       *)
(* source's formulas over word-sized prime fields: the curve constants     *)
(* below are small instances with the same structure as the 256-bit ones.  *)
(***************************************************************************)
EXTENDS Integers, Sequences, FiniteSets, TLC

-----------------------------------------------------------------------------
(* Bytes, byte strings and uint64 lanes                                      *)

Pow2(n) == IF n = 0 THEN 1
           ELSE IF n = 1 THEN 2
           ELSE IF n = 2 THEN 4
           ELSE IF n = 3 THEN 8
           ELSE IF n = 4 THEN 16
           ELSE IF n = 5 THEN 32
           ELSE IF n = 6 THEN 64
           ELSE 128

\* the positions of the one bits of the byte b
BitsOf(b) == {k \in 0..7 : (b \div Pow2(k)) % 2 = 1}

\* bytes(n): n zero bytes; [0x00] * n is empty for n <= 0
Zeros(n) == IF n <= 0 THEN <<>> ELSE [i \in 1..n |-> 0] \o <<>>

\* s[lo:hi] of Python, 0-based and clipped to the length of s
Slice(s, lo, hi) ==
    LET h == IF hi > Len(s) THEN Len(s) ELSE hi
    IN  IF lo >= h THEN <<>> ELSE SubSeq(s, lo + 1, h)

\* int.from_bytes(bs, "little") as a uint64; load64_le for 8 bytes
load64_le(bs) == UNION {{8 * (j - 1) + k : k \in BitsOf(bs[j])} : j \in 1..Len(bs)}

\* byte j (0-based) of the uint64 v: (v >> (8 * j)) & 0xFF
ByteOfLane(v, j) ==
    LET bit(k) == IF (8 * j + k) \in v THEN Pow2(k) ELSE 0
    IN  bit(0) + bit(1) + bit(2) + bit(3) + bit(4) + bit(5) + bit(6) + bit(7)

\* the 8 bytes of the uint64 v, least significant first
store64_le(v) == <<ByteOfLane(v, 0), ByteOfLane(v, 1), ByteOfLane(v, 2),
                   ByteOfLane(v, 3), ByteOfLane(v, 4), ByteOfLane(v, 5),
                   ByteOfLane(v, 6), ByteOfLane(v, 7)>>

\* a ^ b and (~a) & b on uint64
Xor64(a, b) == (a \ b) \cup (b \ a)
AndNot64(a, b) == b \ a

\* (v << n) | (v >> (64 - n)) on uint64 after n = n % 64.  For n = 0 the
\* right shift by 64 is outside what C defines; the builds yield v or 0 for
\* it, and v | v = v | 0 = v.
_rol64(v, n) == {(i + (n % 64)) % 64 : i \in v}

-----------------------------------------------------------------------------
(* Keccak-f[1600]                                                            *)

_RC == <<
    {0},                                    \* 0x0000000000000001
    {1, 7, 15},                             \* 0x0000000000008082
    {1, 3, 7, 15, 63},                      \* 0x800000000000808A
    {15, 31, 63},                           \* 0x8000000080008000
    {0, 1, 3, 7, 15},                       \* 0x000000000000808B
    {0, 31},                                \* 0x0000000080000001
    {0, 7, 15, 31, 63},                     \* 0x8000000080008081
    {0, 3, 15, 63},                         \* 0x8000000000008009
    {1, 3, 7},                              \* 0x000000000000008A
    {3, 7},                                 \* 0x0000000000000088
    {0, 3, 15, 31},                         \* 0x0000000080008009
    {1, 3, 31},                             \* 0x000000008000000A
    {0, 1, 3, 7, 15, 31},                   \* 0x000000008000808B
    {0, 1, 3, 7, 63},                       \* 0x800000000000008B
    {0, 3, 7, 15, 63},                      \* 0x8000000000008089
    {0, 1, 15, 63},                         \* 0x8000000000008003
    {1, 15, 63},                            \* 0x8000000000008002
    {7, 63},                                \* 0x8000000000000080
    {1, 3, 15},                             \* 0x000000000000800A
    {1, 3, 31, 63},                         \* 0x800000008000000A
    {0, 7, 15, 31, 63},                     \* 0x8000000080008081
    {7, 15, 63},                            \* 0x8000000000008080
    {0, 31},                                \* 0x0000000080000001
    {3, 15, 31, 63} >>                      \* 0x8000000080008008

\* _ROT[a][b] of the source is _ROT[a + 1][b + 1]
_ROT == << <<0, 1, 62, 28, 27>>,
           <<36, 44, 6, 55, 20>>,
           <<3, 10, 43, 25, 39>>,
           <<41, 45, 15, 21, 8>>,
           <<18, 2, 61, 56, 14>> >>

\* state[x][y] of uint64_t state[5][5], flat index x * 5 + y
At(state, x, y) == state[x * 5 + y + 1]

\* the flat indexes 1..25 of the state; lane [x][y] sits at x * 5 + y + 1
LaneIdx == 1..25

\* one iteration r of the loop of _keccak_f
KeccakRound(state, r) ==
    LET cx(x) == Xor64(Xor64(Xor64(Xor64(At(state, x, 0), At(state, x, 1)),
                        At(state, x, 2)), At(state, x, 3)), At(state, x, 4))
        c == <<cx(0), cx(1), cx(2), cx(3), cx(4)>>
        dx(x) == Xor64(_rol64(c[((x + 1) % 5) + 1], 1), c[((x + 4) % 5) + 1])
        d == <<dx(0), dx(1), dx(2), dx(3), dx(4)>>
        theta(x, y) == Xor64(At(state, x, y), d[x + 1])
        s1 == [k \in LaneIdx |-> theta((k - 1) \div 5, (k - 1) % 5)] \o <<>>
        \* b[y][(2 * x + 3 * y) % 5] = _rol64(state[x][y], _ROT[y][x])
        RhoPi(st) ==
            [k \in LaneIdx |->
                LET bx == (k - 1) \div 5
                    by == (k - 1) % 5
                    x == CHOOSE x \in 0..4 : (2 * x + 3 * bx) % 5 = by
                IN  _rol64(At(st, x, bx), _ROT[bx + 1][x + 1])] \o <<>>
        \* state[x][y] = b[x][y] ^ ((~b[(x + 1) % 5][y]) & b[(x + 2) % 5][y])
        Chi(b) ==
            [k \in LaneIdx |->
                LET x == (k - 1) \div 5
                    y == (k - 1) % 5
                IN  Xor64(At(b, x, y),
                          AndNot64(At(b, (x + 1) % 5, y), At(b, (x + 2) % 5, y)))]
            \o <<>>
        \* state[0][0] ^= _RC[r]
        Iota(st) == [st EXCEPT ![1] = Xor64(st[1], _RC[r + 1])]
    IN  Iota(Chi(RhoPi(s1)))

RECURSIVE KeccakRounds(_, _)
KeccakRounds(state, r) ==
    IF r = 24 THEN state
    ELSE LET Go(next) == IF Len(next) = 25 THEN KeccakRounds(next, r + 1)
                         ELSE next
         IN  Go(KeccakRound(state, r))

\* for r in range(24): ...
_keccak_f(state) == KeccakRounds(state, 0)

\* (v << n) | (v >> (64 - n)) of the optimized module, called with n in 0..63
rol64(v, n) == {(i + n) % 64 : i \in v}

\* ROT[25] of the optimized module; ROT[i] of the source is ROT[i + 1]
ROT == <<0, 1, 62, 28, 27, 36, 44, 6, 55, 20, 3, 10, 43, 25, 39,
         41, 45, 15, 21, 8, 18, 2, 61, 56, 14>>

\* one iteration r of the loop of keccak_f1600 (RC holds the values of _RC)
KeccakRoundFlat(state, r) ==
    LET cx(x) == Xor64(Xor64(Xor64(Xor64(state[x * 5 + 1], state[x * 5 + 1 + 1]),
                        state[x * 5 + 2 + 1]), state[x * 5 + 3 + 1]),
                        state[x * 5 + 4 + 1])
        c == <<cx(0), cx(1), cx(2), cx(3), cx(4)>>
        dx(x) == Xor64(rol64(c[((x + 1) % 5) + 1], 1), c[((x + 4) % 5) + 1])
        d == <<dx(0), dx(1), dx(2), dx(3), dx(4)>>
        theta(idx) == Xor64(state[idx + 1], d[(idx \div 5) + 1])
        s1 == [k \in LaneIdx |-> theta(k - 1)] \o <<>>
        \* b[y * 5 + (2 * x + 3 * y) % 5] = rol64(state[x * 5 + y], ROT[y * 5 + x])
        RhoPi(st) ==
            [k \in LaneIdx |->
                LET y == (k - 1) \div 5
                    x == CHOOSE x \in 0..4 : (2 * x + 3 * y) % 5 = (k - 1) % 5
                IN  rol64(st[x * 5 + y + 1], ROT[y * 5 + x + 1])] \o <<>>
        \* state[x * 5 + y] = b[y * 5 + x] ^ ((~b[...(x + 1) % 5]) & b[...(x + 2) % 5])
        Chi(b) ==
            [k \in LaneIdx |->
                LET x == (k - 1) \div 5
                    y == (k - 1) % 5
                IN  Xor64(b[k], AndNot64(b[((x + 1) % 5) * 5 + y + 1],
                                         b[((x + 2) % 5) * 5 + y + 1]))] \o <<>>
        \* state[0] ^= RC[r]
        Iota(st) == [st EXCEPT ![1] = Xor64(st[1], _RC[r + 1])]
    IN  Iota(Chi(RhoPi(s1)))

RECURSIVE KeccakRoundsFlat(_, _)
KeccakRoundsFlat(state, r) ==
    IF r = 24 THEN state
    ELSE LET Go(next) == IF Len(next) = 25 THEN KeccakRoundsFlat(next, r + 1)
                         ELSE next
         IN  Go(KeccakRoundFlat(state, r))

keccak_f1600(state) == KeccakRoundsFlat(state, 0)

-----------------------------------------------------------------------------
(* Keccak-256: the sponge of the baseline and of the optimized module        *)

rate_bytes == 136
lane_bytes == 8
lanes_per_block == 17

ZeroState == <<{}, {}, {}, {}, {}, {}, {}, {}, {}, {}, {}, {}, {},
               {}, {}, {}, {}, {}, {}, {}, {}, {}, {}, {}, {}>>

\* baseline: the padded message
keccak_padded(data) ==
    IF Len(data) % rate_bytes # 0 \/ Len(data) = 0
    THEN LET rem == rate_bytes - (Len(data) % rate_bytes)
             padlen == IF rem = 0 THEN rate_bytes ELSE rem
         IN  data \o <<1>> \o Zeros(padlen - 2) \o <<128>>
    ELSE data

\* baseline: the 17 lanes read from padded at block_start
\* (lane i is int.from_bytes(padded[block_start + 8 i : block_start + 8 (i + 1)]))
BlockLanes(padded, block_start) ==
    [i \in 1..lanes_per_block |->
        load64_le(Slice(padded, block_start + (i - 1) * lane_bytes,
                        block_start + i * lane_bytes))] \o <<>>

\* state[i % 5][i // 5] ^= lane i for the 17 lanes of a block
XorBlock(state, lanes) ==
    [idx \in 1..25 |->
        LET x == (idx - 1) \div 5
            y == (idx - 1) % 5
            i == 5 * y + x
        IN  IF i < lanes_per_block THEN Xor64(state[idx], lanes[i + 1])
            ELSE state[idx]] \o <<>>

\* out[i * 8 + y] = (state[i][0] >> (y * 8)) & 0xFF for i in 0..3
Squeeze(state) ==
    store64_le(At(state, 0, 0)) \o store64_le(At(state, 1, 0))
    \o store64_le(At(state, 2, 0)) \o store64_le(At(state, 3, 0))

\* baseline: the block starts range(0, len(padded), rate_bytes)
BlockStarts(padded) == {b \in 0..(Len(padded) - 1) : b % rate_bytes = 0}

RECURSIVE AbsorbFrom(_, _, _)
AbsorbFrom(state, padded, block_start) ==
    IF block_start >= Len(padded) THEN state
    ELSE LET Go(next) == IF Len(next) = 25
                         THEN AbsorbFrom(next, padded, block_start + rate_bytes)
                         ELSE next
         IN  Go(_keccak_f(XorBlock(state, BlockLanes(padded, block_start))))

\* baseline keccak256(data) -> 32 bytes
keccak256(data) == Squeeze(AbsorbFrom(ZeroState, keccak_padded(data), 0))

\* optimized: RATE_BYTES and LANES_PER_BLOCK of keccak256
RATE_BYTES == 136
LANES_PER_BLOCK == 17

\* optimized: lane i of a block is load64_le(p + i * 8)
LoadBlock(buf, start) ==
    [i \in 1..LANES_PER_BLOCK |->
        load64_le(SubSeq(buf, start + (i - 1) * 8 + 1, start + i * 8))] \o <<>>

\* optimized: state[(i % 5) * 5 + (i // 5)] ^= lane i, then keccak_f1600
AbsorbFlat(state, lanes) ==
    keccak_f1600(
        [idx \in 1..25 |->
            LET i == 5 * ((idx - 1) % 5) + ((idx - 1) \div 5)
            IN  IF i < LANES_PER_BLOCK THEN Xor64(state[idx], lanes[i + 1])
                ELSE state[idx]] \o <<>>)

\* optimized: the contents of temp at each absorption of the padding branch,
\* for the data left over at block_start after the full blocks
OptPadBlocks(data, block_start) ==
    LET remaining == Len(data) - block_start
        tail == SubSeq(data, block_start + 1, Len(data))
    IN  IF remaining = 0 /\ block_start = 0
        THEN << <<1>> \o Zeros(RATE_BYTES - 2) \o <<128>> >>
        ELSE IF remaining > 0
        THEN IF remaining = RATE_BYTES - 1
             THEN << tail \o <<1>>,
                     <<128>> \o Zeros(RATE_BYTES - 1) >>
             ELSE << tail \o <<1>> \o Zeros(RATE_BYTES - 2 - remaining)
                          \o <<128>> >>
        ELSE <<>>

RECURSIVE OptAbsorbFull(_, _, _)
OptAbsorbFull(state, data, block_start) ==
    IF block_start + RATE_BYTES > Len(data) THEN state
    ELSE LET Go(next) == IF Len(next) = 25
                         THEN OptAbsorbFull(next, data, block_start + RATE_BYTES)
                         ELSE next
         IN  Go(AbsorbFlat(state, LoadBlock(data, block_start)))

RECURSIVE OptAbsorbPad(_, _, _)
OptAbsorbPad(state, temps, k) ==
    IF k > Len(temps) THEN state
    ELSE LET Go(next) == IF Len(next) = 25 THEN OptAbsorbPad(next, temps, k + 1)
                         ELSE next
         IN  Go(AbsorbFlat(state, LoadBlock(temps[k], 0)))

\* variant: the digest read from state[0], state[1], state[2], state[3]
OptSqueeze_flat(state) ==
    store64_le(state[1]) \o store64_le(state[2])
    \o store64_le(state[3]) \o store64_le(state[4])

\* optimized: store64_le(output + i * 8, state[i * 5]) for i in 0..3
OptSqueeze(state) ==
    store64_le(state[1]) \o store64_le(state[6])
    \o store64_le(state[11]) \o store64_le(state[16])

\* optimized keccak256(data) -> 32 bytes
keccak256_opt(data) ==
    LET full == (Len(data) \div RATE_BYTES) * RATE_BYTES
    IN  OptSqueeze(OptAbsorbPad(OptAbsorbFull(ZeroState, data, 0),
                                OptPadBlocks(data, full), 1))

-----------------------------------------------------------------------------
(* Python values: integers from and to bytes, hex strings, raised errors     *)

\* the value of an operation that ended in an exception
Raised == -1
PointRaised == <<-1, -1>>
BytesRaised == <<-1>>

RECURSIVE from_bytes_big(_)
\* int.from_bytes(bs, "big")
from_bytes_big(bs) ==
    IF bs = <<>> THEN 0
    ELSE 256 * from_bytes_big(SubSeq(bs, 1, Len(bs) - 1)) + bs[Len(bs)]

RECURSIVE to_bytes_big(_, _)
\* v.to_bytes(n, "big") for 0 <= v < 256^n
to_bytes_big(v, n) ==
    IF n = 0 THEN <<>> ELSE Append(to_bytes_big(v \div 256, n - 1), v % 256)

RECURSIVE from_bytes_little(_)
\* int.from_bytes(bs, "little")
from_bytes_little(bs) ==
    IF bs = <<>> THEN 0 ELSE bs[1] + 256 * from_bytes_little(Tail(bs))

RECURSIVE to_bytes_little(_, _)
\* v.to_bytes(n, "little") for 0 <= v < 256^n
to_bytes_little(v, n) ==
    IF n = 0 THEN <<>> ELSE <<v % 256>> \o to_bytes_little(v \div 256, n - 1)

HexDigits == <<"0", "1", "2", "3", "4", "5", "6", "7",
               "8", "9", "a", "b", "c", "d", "e", "f">>

\* bs.hex(): a str is the sequence of its characters
hex(bs) ==
    [i \in 1..(2 * Len(bs)) |->
        IF i % 2 = 1 THEN HexDigits[(bs[(i + 1) \div 2] \div 16) + 1]
        ELSE HexDigits[(bs[i \div 2] % 16) + 1]] \o <<>>

\* str.lower() on the characters that occur in "0x" + hex
lower(str) ==
    [i \in 1..Len(str) |->
        CASE str[i] = "A" -> "a" [] str[i] = "B" -> "b" [] str[i] = "C" -> "c"
          [] str[i] = "D" -> "d" [] str[i] = "E" -> "e" [] str[i] = "F" -> "f"
          [] str[i] = "X" -> "x" [] OTHER -> str[i]] \o <<>>

RECURSIVE pow(_, _, _)
\* pow(b, e, m) for e >= 0
pow(b, e, m) ==
    IF e = 0 THEN 1 % m
    ELSE LET h == pow(b, e \div 2, m)
             sq == (h * h) % m
         IN  IF e % 2 = 1 THEN (sq * (b % m)) % m ELSE sq

-----------------------------------------------------------------------------
(* secp256k1: y^2 = x^3 + 7 over F_P, group of prime order N generated by   *)
(* (Gx, Gy).  P = 3 (mod 4) and N < P as for the 256-bit constants.          *)

secp_P == 79
secp_N == 67
secp_Gx == 1
secp_Gy == 18

RECURSIVE ModInvLoop(_, _, _, _)
\* the while loop of _mod_inv: returns <<t, r>> once new_r = 0
ModInvLoop(t, r, new_t, new_r) ==
    IF new_r = 0 THEN <<t, r>>
    ELSE LET q == r \div new_r
         IN  ModInvLoop(new_t, new_r, t - q * new_t, r - q * new_r)

_mod_inv(a, n) ==
    LET a1 == IF a < 0 THEN ((a % n) + n) % n ELSE a
        tr == ModInvLoop(0, n, 1, a1)
    IN  IF tr[2] # 1 THEN Raised ELSE tr[1] % n

\* variant: the case px == qx with py != qy takes the chord slope
secp_point_add_chord(px, py, qx, qy) ==
    LET Add(inv) ==
            LET lam == ((qy - py) * inv) % secp_P
                rx == (lam * lam - px - qx) % secp_P
                ry == (lam * (px - rx) - py) % secp_P
            IN  IF inv = Raised THEN PointRaised ELSE <<rx, ry>>
    IN  IF <<px, py>> = <<0, 0>> THEN <<qx, qy>>
        ELSE IF <<qx, qy>> = <<0, 0>> THEN <<px, py>>
        ELSE Add(_mod_inv(IF px = qx THEN 2 * py ELSE qx - px, secp_P))

secp_point_add(px, py, qx, qy) ==
    LET Add(inv) ==
            LET lam == IF px = qx THEN ((3 * px * px) * inv) % secp_P
                       ELSE ((qy - py) * inv) % secp_P
                rx == (lam * lam - px - qx) % secp_P
                ry == (lam * (px - rx) - py) % secp_P
            IN  IF inv = Raised THEN PointRaised ELSE <<rx, ry>>
    IN  IF <<px, py>> = <<0, 0>> THEN <<qx, qy>>
        ELSE IF <<qx, qy>> = <<0, 0>> THEN <<px, py>>
        ELSE IF px = qx /\ py # qy THEN <<0, 0>>
        ELSE IF px = qx THEN Add(_mod_inv(2 * py, secp_P))
        ELSE Add(_mod_inv(qx - px, secp_P))

RECURSIVE SecpMulLoop(_, _, _)
\* the while loop of _point_mul; acc is (rx, ry), pt is (x, y)
SecpMulLoop(d, acc, pt) ==
    LET Go(acc1, pt1) ==
            IF acc1 = PointRaised \/ pt1 = PointRaised THEN PointRaised
            ELSE SecpMulLoop(d \div 2, acc1, pt1)
    IN  IF d = 0 THEN acc
        ELSE Go(IF d % 2 = 1 THEN secp_point_add(acc[1], acc[2], pt[1], pt[2])
                ELSE acc,
                secp_point_add(pt[1], pt[2], pt[1], pt[2]))

secp_point_mul(d, x, y) == SecpMulLoop(d % secp_N, <<0, 0>>, <<x, y>>)

\* bytes([0x04]) + x.to_bytes(32, "big") + y.to_bytes(32, "big")
Uncompressed(pt) == <<4>> \o to_bytes_big(pt[1], 32) \o to_bytes_big(pt[2], 32)

\* the range check of line 54 dropped
privkey_to_pubkey_anyd(privkey) ==
    LET Pub(pt) == IF pt = PointRaised THEN BytesRaised ELSE Uncompressed(pt)
    IN  IF Len(privkey) # 32 THEN BytesRaised
        ELSE Pub(secp_point_mul(from_bytes_big(privkey), secp_Gx, secp_Gy))

privkey_to_pubkey(privkey) ==
    LET d == from_bytes_big(privkey)
        Pub(pt) == IF pt = PointRaised THEN BytesRaised ELSE Uncompressed(pt)
    IN  IF Len(privkey) # 32 THEN BytesRaised
        ELSE IF d = 0 \/ d >= secp_N THEN BytesRaised
        ELSE Pub(secp_point_mul(d, secp_Gx, secp_Gy))

_recover_pubkey_from_sig(msg_hash, r, s, recid) ==
    LET r_scalar == r % secp_N
        bit2 == (recid \div 2) % 2 = 1
        x == IF bit2 THEN (r + secp_N) % secp_P ELSE r % secp_P
        rhs == (x * x * x + 7) % secp_P
        z == from_bytes_big(msg_hash) % secp_N
        Sum(g_mul, r_mul) ==
            LET Q(q) == IF q = PointRaised \/ q = <<0, 0>> THEN PointRaised
                        ELSE q
            IN  IF g_mul = PointRaised \/ r_mul = PointRaised THEN PointRaised
                ELSE Q(secp_point_add(g_mul[1], g_mul[2], r_mul[1], r_mul[2]))
        Root(y0, r_inv) ==
            LET y_cand == IF (recid % 2) # (y0 % 2) THEN (secp_P - y0) % secp_P
                          ELSE y0
                u1 == ((0 - z) * r_inv) % secp_N
                u2 == (s * r_inv) % secp_N
            IN  IF (y0 * y0) % secp_P # rhs THEN PointRaised
                ELSE IF r_inv = Raised THEN PointRaised
                ELSE Sum(secp_point_mul(u1, secp_Gx, secp_Gy),
                         secp_point_mul(u2, x, y_cand))
    IN  IF bit2 /\ r + secp_N >= secp_P THEN PointRaised
        ELSE Root(pow(rhs, (secp_P + 1) \div 4, secp_P),
                  _mod_inv(r_scalar, secp_N))

recover_pubkey(msg_hash, r, s, recid) ==
    LET Pub(q) == IF q = PointRaised THEN BytesRaised ELSE Uncompressed(q)
    IN  IF Len(msg_hash) # 32 THEN BytesRaised
        ELSE Pub(_recover_pubkey_from_sig(msg_hash, r, s, recid))

\* "0x" + keccak256(pub)[12:].hex()
AddressOf(pub) == <<"0", "x">> \o hex(Slice(keccak256(pub), 12, 32))

\* the comparison of line 118 dropped: the first recid that recovers is taken
AddrMatch_first(addr_rec, our_addr) == TRUE

\* if addr_rec.lower() == our_addr.lower()
AddrMatch(addr_rec, our_addr) == lower(addr_rec) = lower(our_addr)

\* lines 109-110 dropped: s is returned as computed
LowS_kept(s0) == s0

\* if s > _N // 2: s = _N - s
LowS(s0) == IF s0 > secp_N \div 2 THEN secp_N - s0 ELSE s0

RECURSIVE SignRecidLoop(_, _, _, _, _)
\* for recid in range(4): the first recid whose recovered address is
\* our_addr, or 4 when the loop ends without a return
SignRecidLoop(msg_hash, r, s, our_addr, recid) ==
    LET Try(rec) ==
            IF rec # PointRaised
               /\ AddrMatch(AddressOf(Uncompressed(rec)), our_addr)
            THEN recid
            ELSE SignRecidLoop(msg_hash, r, s, our_addr, recid + 1)
    IN  IF recid = 4 THEN 4
        ELSE Try(_recover_pubkey_from_sig(msg_hash, r, s, recid))

\* what one iteration of for attempt in range(256) does: continue, raise,
\* or return (r, s, v)
Continue == <<-2>>

SignAttempt(privkey, msg_hash, z, d, k) ==
    LET Ret(r, s, recid) == IF recid < 4 THEN <<r, s, 27 + recid>> ELSE Continue
        Sign(kpt, k_inv, our_pub) ==
            LET r == kpt[1] % secp_N
                s0 == (k_inv * (z + r * d)) % secp_N
                s == LowS(s0)
            IN  IF kpt = PointRaised THEN <<Raised>>
                ELSE IF r = 0 THEN Continue
                ELSE IF k_inv = Raised THEN <<Raised>>
                ELSE IF s0 = 0 THEN Continue
                ELSE IF our_pub = BytesRaised THEN <<Raised>>
                ELSE Ret(r, s, SignRecidLoop(msg_hash, r, s,
                                             AddressOf(our_pub), 0))
    IN  IF k = 0 \/ k >= secp_N THEN Continue
        ELSE Sign(secp_point_mul(k, secp_Gx, secp_Gy), _mod_inv(k, secp_N),
                  privkey_to_pubkey(privkey))

RECURSIVE SignAttemptLoop(_, _, _, _, _, _, _)
\* for attempt in range(lo, hi + 1): what the first iteration that does not
\* continue does, or Continue when they all continue (the range is searched
\* by halves, in order)
SignAttemptLoop(privkey, msg_hash, z, d, k_cand, lo, hi) ==
    LET mid == (lo + hi) \div 2
        Rest(first) ==
            IF first # Continue THEN first
            ELSE SignAttemptLoop(privkey, msg_hash, z, d, k_cand, mid + 1, hi)
    IN  IF lo = hi
        THEN SignAttempt(privkey, msg_hash, z, d, (k_cand + lo) % secp_N)
        ELSE Rest(SignAttemptLoop(privkey, msg_hash, z, d, k_cand, lo, mid))

sign_recoverable(privkey, msg_hash) ==
    LET z == from_bytes_big(msg_hash)
        d == from_bytes_big(privkey) % secp_N
        k_cand == 1 + ((z + d) % (secp_N - 2))
        Out(res) == IF res = Continue THEN <<Raised>> ELSE res
    IN  IF Len(privkey) # 32 \/ Len(msg_hash) # 32 THEN <<Raised>>
        ELSE Out(SignAttemptLoop(privkey, msg_hash, z, d, k_cand, 0, 255))

privkey_to_address(privkey) ==
    LET Addr(pub) == IF pub = BytesRaised THEN <<Raised>> ELSE AddressOf(pub)
    IN  Addr(privkey_to_pubkey(privkey))

-----------------------------------------------------------------------------
(* Digests of the linked libraries.  hashlib.sha512 and OpenSSL's SHA256 are  *)
(* deterministic functions from bytes to 64 and 32 bytes; what the package    *)
(* does with a digest is modelled, the digest itself is a checksum.           *)

RECURSIVE WeightedSum(_, _, _)
\* the sum of (i + 1) * (data[i] + 1) for i in lo..hi, by halves
WeightedSum(data, lo, hi) ==
    IF lo > hi THEN 0
    ELSE IF lo = hi THEN (lo + 1) * (data[lo] + 1)
    ELSE WeightedSum(data, lo, (lo + hi) \div 2)
         + WeightedSum(data, ((lo + hi) \div 2) + 1, hi)

Checksum(data) == (7 + WeightedSum(data, 1, Len(data))) % 65521

\* hashlib.sha512(data).digest(): 64 bytes
sha512(data) ==
    LET Digest(c) == [i \in 1..64 |-> ((c + 1) * (2 * i + 1) + i * i) % 256]
    IN  Digest(Checksum(data)) \o <<>>

RECURSIVE LittleModRange(_, _, _, _)
\* (the little-endian value of bs[lo..hi]) % m, by halves
LittleModRange(bs, lo, hi, m) ==
    IF lo > hi THEN 0
    ELSE IF lo = hi THEN bs[lo] % m
    ELSE LET mid == (lo + hi) \div 2
         IN  (LittleModRange(bs, lo, mid, m)
              + pow(256, mid - lo + 1, m) * LittleModRange(bs, mid + 1, hi, m))
             % m

\* int.from_bytes(bs, "little") % m
from_bytes_little_mod(bs, m) == LittleModRange(bs, 1, Len(bs), m)

-----------------------------------------------------------------------------
(* Ed25519: the twisted Edwards curve -x^2 + y^2 = 1 + D x^2 y^2 over F_P    *)
(* with D = -121665/121666 and base point of y = 4/5, as in the source.  The *)
(* field is scaled to P = 293 (P = 5 mod 8, as 2^255 - 19), which gives a    *)
(* group of order 8 * 37 and L = 37; an integer below 2^ed_bits encodes y    *)
(* and bit ed_bits of an encoding is the sign of x (255 in the source).      *)

ed_P == 293
ed_L == 37
ed_bits == 9

\* the value of a function that returned None
NoneX == -3
NonePoint == <<-3>>

_modp_inv(x) == pow(x, ed_P - 2, ed_P)

ed_D == ((0 - 121665) * pow(121666, ed_P - 2, ed_P)) % ed_P

_sha512_modq(data) == from_bytes_little_mod(sha512(data), ed_L)

_recover_x(y, sign) ==
    LET Root(x2) ==
            LET x0 == pow(x2, (ed_P + 3) \div 8, ed_P)
                x1 == IF (x0 * x0 - x2) % ed_P # 0
                      THEN (x0 * pow(2, (ed_P - 1) \div 4, ed_P)) % ed_P
                      ELSE x0
            IN  IF x2 = 0 THEN (IF sign = 0 THEN 0 ELSE NoneX)
                ELSE IF (x1 * x1 - x2) % ed_P # 0 THEN NoneX
                ELSE IF x1 % 2 # sign THEN (ed_P - x1) % ed_P
                ELSE x1
    IN  IF y >= ed_P THEN NoneX
        ELSE Root(((y * y - 1) * _modp_inv(ed_D * y * y + 1)) % ed_P)

ed_Gy == (4 * _modp_inv(5)) % ed_P
ed_Gx == _recover_x(ed_Gy, 0)
ed_G == <<ed_Gx, ed_Gy, 1, (ed_Gx * ed_Gy) % ed_P>>

\* _point_add of the Ed25519 module; points are (X, Y, Z, T)
ed_point_add(P, Q) ==
    LET A == ((P[2] - P[1]) * (Q[2] - Q[1])) % ed_P
        B == ((P[2] + P[1]) * (Q[2] + Q[1])) % ed_P
        C == (2 * P[4] * Q[4] * ed_D) % ed_P
        D == (2 * P[3] * Q[3]) % ed_P
        E == (B - A) % ed_P
        F == (D - C) % ed_P
        G == (D + C) % ed_P
        H == (B + A) % ed_P
    IN  <<(E * F) % ed_P, (G * H) % ed_P, (F * G) % ed_P, (E * H) % ed_P>>

RECURSIVE EdMulLoop(_, _, _)
\* the while loop of _point_mul
EdMulLoop(s, Q, P) ==
    LET Go(Q1, P1) == IF Len(Q1) = 4 /\ Len(P1) = 4
                      THEN EdMulLoop(s \div 2, Q1, P1) ELSE Q1
    IN  IF s = 0 THEN Q
        ELSE Go(IF s % 2 = 1 THEN ed_point_add(Q, P) ELSE Q, ed_point_add(P, P))

\* _point_mul of the Ed25519 module
ed_point_mul(s, P) == EdMulLoop(s % ed_L, <<0, 1, 1, 0>>, P)

_point_equal(P, Q) ==
    IF (P[1] * Q[3] - Q[1] * P[3]) % ed_P # 0 THEN FALSE
    ELSE IF (P[2] * Q[3] - Q[2] * P[3]) % ed_P # 0 THEN FALSE
    ELSE TRUE

\* the sign bit of line 70 left out
_point_compress_nosign(P) ==
    LET Enc(zinv) == to_bytes_little((P[2] * zinv) % ed_P, 32)
    IN  Enc(_modp_inv(P[3]))

_point_compress(P) ==
    LET Enc(zinv) ==
            LET x == (P[1] * zinv) % ed_P
                y == (P[2] * zinv) % ed_P
            IN  to_bytes_little(y + (x % 2) * (2 ^ ed_bits), 32)
    IN  Enc(_modp_inv(P[3]))

_point_decompress(s) ==
    LET enc == from_bytes_little(s)
        sign == enc \div (2 ^ ed_bits)
        y == enc % (2 ^ ed_bits)
        Point(x) == IF x = NoneX THEN NonePoint
                    ELSE <<x, y, 1, (x * y) % ed_P>>
    IN  IF Len(s) # 32 THEN NonePoint
        ELSE Point(_recover_x(y, sign))

\* (a, prefix), or <<Raised>>; a keeps bits 3..ed_bits-2 of h[:32] and has
\* bit ed_bits-1 set (bits 3..253 and bit 254 in the source)
_secret_expand(secret) ==
    LET Expand(h) ==
            LET low == from_bytes_little_mod(SubSeq(h, 1, 32), 2 ^ (ed_bits - 1))
                a == (low \div 8) * 8 + 2 ^ (ed_bits - 1)
            IN  <<a, SubSeq(h, 33, 64)>>
    IN  IF Len(secret) # 32 THEN <<Raised>>
        ELSE Expand(sha512(secret))

ed25519_public_key(seed) ==
    LET Key(ap) == IF ap = <<Raised>> THEN BytesRaised
                   ELSE _point_compress(ed_point_mul(ap[1], ed_G))
    IN  Key(_secret_expand(seed))

ed25519_sign(message, seed) ==
    LET Finish(a, r, R_enc, A_enc) ==
            LET h == _sha512_modq(R_enc \o A_enc \o message)
                s == (r + h * a) % ed_L
            IN  R_enc \o to_bytes_little(s, 32)
        WithR(a, r, A_enc) ==
            Finish(a, r, _point_compress(ed_point_mul(r, ed_G)), A_enc)
        Sign(ap) ==
            IF ap = <<Raised>> THEN BytesRaised
            ELSE WithR(ap[1], _sha512_modq(ap[2] \o message),
                       _point_compress(ed_point_mul(ap[1], ed_G)))
    IN  Sign(_secret_expand(seed))

\* the check of lines 117-118 left out
SInRange_any(s) == TRUE

\* if s >= _L: return False
SInRange(s) == s < ed_L

ed25519_verify(message, signature, public_key) ==
    LET R_enc == SubSeq(signature, 1, 32)
        S_raw == SubSeq(signature, 33, 64)
        s == from_bytes_little(S_raw)
        Check(A, R) ==
            IF A = NonePoint THEN FALSE
            ELSE IF R = NonePoint THEN FALSE
            ELSE IF ~SInRange(s) THEN FALSE
            ELSE _point_equal(
                     ed_point_mul(s, ed_G),
                     ed_point_add(R, ed_point_mul(
                         _sha512_modq(R_enc \o public_key \o message), A)))
    IN  IF Len(signature) # 64 \/ Len(public_key) # 32 THEN FALSE
        ELSE Check(_point_decompress(public_key), _point_decompress(R_enc))

-----------------------------------------------------------------------------
(* BIP-137 signed messages.  A base64 text is the sequence of its            *)
(* characters.  EVP_EncodeBlock and EVP_DecodeBlock are OpenSSL's: the       *)
(* encoder pads with "=", the decoder takes "=" as the sextet 0, wants a     *)
(* length that is a multiple of 4 and returns 3 bytes per 4 characters.      *)

\* OpenSSL SHA256(data): 32 bytes
SHA256(data) == to_bytes_big(Checksum(data), 32)

bip137_signed_message_hash(message) == SHA256(message)

B64Alphabet ==
    <<"A", "B", "C", "D", "E", "F", "G", "H", "I", "J", "K", "L", "M",
      "N", "O", "P", "Q", "R", "S", "T", "U", "V", "W", "X", "Y", "Z",
      "a", "b", "c", "d", "e", "f", "g", "h", "i", "j", "k", "l", "m",
      "n", "o", "p", "q", "r", "s", "t", "u", "v", "w", "x", "y", "z",
      "0", "1", "2", "3", "4", "5", "6", "7", "8", "9", "+", "/">>

\* the characters of the group that encodes the bytes f[3g+1 .. 3g+3]
B64Group(f, g) ==
    LET n == Len(f) - 3 * g
        b1 == f[3 * g + 1]
        b2 == IF n >= 2 THEN f[3 * g + 2] ELSE 0
        b3 == IF n >= 3 THEN f[3 * g + 3] ELSE 0
        l == b1 * 65536 + b2 * 256 + b3
    IN  <<B64Alphabet[(l \div 262144) + 1],
          B64Alphabet[((l \div 4096) % 64) + 1],
          IF n >= 2 THEN B64Alphabet[((l \div 64) % 64) + 1] ELSE "=",
          IF n >= 3 THEN B64Alphabet[(l % 64) + 1] ELSE "=">>

\* EVP_EncodeBlock(t, f, n): the text written to t; its length is the return
EVP_EncodeBlock(f) ==
    [i \in 1..(4 * ((Len(f) + 2) \div 3)) |->
        B64Group(f, (i - 1) \div 4)[((i - 1) % 4) + 1]] \o <<>>

\* the sextet of a character, 0 for "=", -1 for a character outside base64
B64Value(c) ==
    IF c = "=" THEN 0
    ELSE IF \E v \in 1..64 : B64Alphabet[v] = c
    THEN (CHOOSE v \in 1..64 : B64Alphabet[v] = c) - 1
    ELSE -1

\* EVP_DecodeBlock(t, f, n): <<return value, the bytes written to t>>
EVP_DecodeBlock(f) ==
    LET vals == [i \in 1..Len(f) |-> B64Value(f[i])] \o <<>>
        Decoded(v) ==
            [i \in 1..(3 * (Len(v) \div 4)) |->
                LET g == (i - 1) \div 3
                    l == v[4 * g + 1] * 262144 + v[4 * g + 2] * 4096
                         + v[4 * g + 3] * 64 + v[4 * g + 4]
                IN  CASE (i - 1) % 3 = 0 -> l \div 65536
                      [] (i - 1) % 3 = 1 -> (l \div 256) % 256
                      [] OTHER -> l % 256] \o <<>>
        Out(v) == IF \E i \in 1..Len(v) : v[i] = -1 THEN <<-1, <<>> >>
                  ELSE <<3 * (Len(v) \div 4), Decoded(v)>>
    IN  IF Len(f) % 4 # 0 THEN <<-1, <<>> >> ELSE Out(vals)

RECURSIVE BitAnd(_, _)
\* a & b on non-negative integers
BitAnd(a, b) ==
    IF a = 0 \/ b = 0 THEN 0
    ELSE (a % 2) * (b % 2) + 2 * BitAnd(a \div 2, b \div 2)

\* the header written for v = 27 + recid, whatever recid is
HeaderOf_v(recid) == 27 + recid

\* the header 31 + recid of a compressed key, for every recid
HeaderOf_compressed(recid) == 31 + recid

\* header = (32 + recid) if recid < 3 else 31
HeaderOf(recid) == IF recid < 3 THEN 32 + recid ELSE 31

\* unsigned char sig[65] of bip137_sign_message for the triple (r, s, v)
BipSigBytes(rsv) ==
    <<HeaderOf(rsv[3] - 27)>> \o to_bytes_big(rsv[1], 32)
                              \o to_bytes_big(rsv[2], 32)

bip137_sign_message(privkey, message) ==
    LET Encode(rsv) == IF rsv = <<Raised>> THEN BytesRaised
                       ELSE EVP_EncodeBlock(BipSigBytes(rsv))
    IN  Encode(sign_recoverable(privkey, bip137_signed_message_hash(message)))

\* variant: recid = sig[0] & 0x01
BipRecid_bit(sig) == BitAnd(sig[1], 1)

\* recid = sig[0] & 0x03
BipRecid(sig) == BitAnd(sig[1], 3)

\* bip137_verify_message for a text that decodes into sig[66]
bip137_verify_message(message, signature_b64, pubkey) ==
    LET Recovered(recovered) ==
            IF recovered = BytesRaised THEN FALSE ELSE recovered = pubkey
        Check(dec) ==
            LET sig == dec[2]
            IN  IF dec[1] < 65 THEN FALSE
                ELSE Recovered(recover_pubkey(
                         bip137_signed_message_hash(message),
                         from_bytes_big(SubSeq(sig, 2, 33)),
                         from_bytes_big(SubSeq(sig, 34, 65)),
                         BipRecid(sig)))
    IN  Check(EVP_DecodeBlock(signature_b64))

-----------------------------------------------------------------------------
(* MessagePack.  A Python value is a pair <<type, payload>>; the payload is  *)
(* always a sequence.  An int is its sign (1 for negative) followed by the   *)
(* 9 bytes of its magnitude, most significant first, so that the values      *)
(* around 2^63 and 2^64 are represented exactly; a str is its code points; a *)
(* dict is its (key, value) pairs in insertion order.                        *)

PyNone == <<"none", <<>> >>
PyBool(b) == <<"bool", <<IF b THEN 1 ELSE 0>> >>
PyInt(neg, mag) == <<"int", <<neg>> \o mag>>
PyStr(cps) == <<"str", cps>>
PyBytes(bs) == <<"bytes", bs>>
PyList(items) == <<"list", items>>
PyTuple(items) == <<"tuple", items>>
PyDict(pairs) == <<"dict", pairs>>
PyFloat == <<"float", <<>> >>

IntNeg(obj) == obj[2][1] = 1
IntMag(obj) == Tail(obj[2])

\* a <= b and a < b on magnitudes of one length
MagLE(a, b) ==
    \/ a = b
    \/ \E i \in 1..Len(a) : a[i] < b[i] /\ \A j \in 1..(i - 1) : a[j] = b[j]
MagLT(a, b) == a # b /\ MagLE(a, b)

\* the magnitude of a small literal of the source
Mag(n) == to_bytes_big(n, 9)
Mag_FFFFFFFF == <<0, 0, 0, 0, 0, 255, 255, 255, 255>>
Mag_80000000 == <<0, 0, 0, 0, 0, 128, 0, 0, 0>>
Mag_INT64_MAX == <<0, 127, 255, 255, 255, 255, 255, 255, 255>>
Mag_INT64_MIN == <<0, 128, 0, 0, 0, 0, 0, 0, 0>>

\* the outcomes of a pack that raised
TypeErrorRaised == <<-4>>
OverflowErrorRaised == <<-5>>
UnicodeErrorRaised == <<-6>>
PackRaised(out) == out \in {TypeErrorRaised, OverflowErrorRaised,
                            UnicodeErrorRaised}

\* cdef int64_t ival = obj: the conversion raises OverflowError outside
\* [-2^63, 2^63 - 1]
FitsInt64(neg, mag) ==
    IF neg = 1 THEN MagLE(mag, Mag_INT64_MIN) ELSE MagLE(mag, Mag_INT64_MAX)

\* the n low bytes of a uint64, most significant first:
\* (val >> 8 (n - 1)) & 0xFF, ..., val & 0xFF
_pack_uint_be(mag, n) == SubSeq(mag, Len(mag) - n + 1, Len(mag))

RECURSIVE IncBytes(_)
\* bs + 1 modulo 256^Len(bs)
IncBytes(bs) ==
    IF bs = <<>> THEN <<>>
    ELSE IF bs[Len(bs)] < 255
    THEN SubSeq(bs, 1, Len(bs) - 1) \o <<bs[Len(bs)] + 1>>
    ELSE IncBytes(SubSeq(bs, 1, Len(bs) - 1)) \o <<0>>

\* (2^(8n) + ival) & (2^(8n) - 1) for ival = -mag, as n bytes
TwosComplement(mag, n) ==
    IncBytes([i \in 1..n |-> 255 - mag[Len(mag) - n + i]] \o <<>>)

\* baseline: the int branch of _msgpack_pack_obj
PackIntBase(neg, mag) ==
    IF ~FitsInt64(neg, mag) THEN OverflowErrorRaised
    ELSE IF neg = 0 /\ MagLE(mag, Mag(127)) THEN <<mag[9]>>
    ELSE IF neg = 1 /\ MagLE(mag, Mag(32)) THEN TwosComplement(mag, 1)
    ELSE IF neg = 0
    THEN IF MagLE(mag, Mag(255)) THEN <<204>> \o _pack_uint_be(mag, 1)
         ELSE IF MagLE(mag, Mag(65535)) THEN <<205>> \o _pack_uint_be(mag, 2)
         ELSE IF MagLE(mag, Mag_FFFFFFFF) THEN <<206>> \o _pack_uint_be(mag, 4)
         ELSE <<207>> \o _pack_uint_be(mag, 8)
    ELSE IF MagLE(mag, Mag(128)) THEN <<208>> \o TwosComplement(mag, 1)
    ELSE IF MagLE(mag, Mag(32768)) THEN <<209>> \o TwosComplement(mag, 2)
    ELSE IF MagLE(mag, Mag_80000000) THEN <<210>> \o TwosComplement(mag, 4)
    ELSE <<211>> \o TwosComplement(mag, 8)

\* direct: bytes_needed of _pack_int_direct
BytesNeeded(neg, mag) ==
    IF (neg = 0 /\ MagLE(mag, Mag(127))) \/ (neg = 1 /\ MagLE(mag, Mag(32)))
    THEN 1
    ELSE IF (neg = 1 /\ MagLE(mag, Mag(128)) /\ MagLT(Mag(32), mag))
            \/ (neg = 0 /\ MagLE(Mag(128), mag) /\ MagLE(mag, Mag(255)))
    THEN 2
    ELSE IF (neg = 1 /\ MagLE(mag, Mag(32768)) /\ MagLT(Mag(128), mag))
            \/ (neg = 0 /\ MagLE(Mag(256), mag) /\ MagLE(mag, Mag(65535)))
    THEN 3
    ELSE IF (neg = 1 /\ MagLE(mag, Mag_80000000) /\ MagLT(Mag(32768), mag))
            \/ (neg = 0 /\ MagLE(Mag(65536), mag)
                /\ MagLE(mag, Mag_FFFFFFFF))
    THEN 5
    ELSE 9

\* direct: the bytes _pack_int_direct writes at ptr, and the advance of pos
PackIntWrites(neg, mag) ==
    IF neg = 0 /\ MagLE(mag, Mag(127)) THEN <<mag[9]>>
    ELSE IF neg = 1 /\ MagLE(mag, Mag(32)) THEN TwosComplement(mag, 1)
    ELSE IF neg = 0
    THEN IF MagLE(mag, Mag(255)) THEN <<204>> \o _pack_uint_be(mag, 1)
         ELSE IF MagLE(mag, Mag(65535)) THEN <<205>> \o _pack_uint_be(mag, 2)
         ELSE IF MagLE(mag, Mag_FFFFFFFF) THEN <<206>> \o _pack_uint_be(mag, 4)
         ELSE <<207>> \o _pack_uint_be(mag, 8)
    ELSE IF MagLE(mag, Mag(128)) THEN <<208>> \o TwosComplement(mag, 1)
    ELSE IF MagLE(mag, Mag(32768)) THEN <<209>> \o TwosComplement(mag, 2)
    ELSE IF MagLE(mag, Mag_80000000) THEN <<210>> \o TwosComplement(mag, 4)
    ELSE <<211>> \o TwosComplement(mag, 8)

\* variant: growth by one half only, without the step up to required
_ensure_space_half(current_size, pos, needed) ==
    IF pos + needed > current_size THEN (current_size * 3) \div 2
    ELSE current_size

\* direct: _ensure_space(buf, pos, needed) on a buffer of current_size bytes:
\* the size of the buffer afterwards
_ensure_space(current_size, pos, needed) ==
    IF pos + needed > current_size
    THEN (IF (current_size * 3) \div 2 < pos + needed THEN pos + needed
          ELSE (current_size * 3) \div 2)
    ELSE current_size

\* direct: msgpack_pack of an int: bytearray(1024), the writes at pos = 0,
\* and the first pos bytes of the buffer (the writes stay inside the buffer:
\* bytes_needed is at most 9)
PackIntDirect(neg, mag) ==
    IF ~FitsInt64(neg, mag) THEN OverflowErrorRaised
    ELSE LET Out(w, size) == SubSeq(w \o Zeros(size - Len(w)), 1, Len(w))
         IN  Out(PackIntWrites(neg, mag),
                 _ensure_space(1024, 0, BytesNeeded(neg, mag)))

\* one code point in UTF-8; a surrogate has no encoding
Utf8Char(cp) ==
    IF cp < 128 THEN <<cp>>
    ELSE IF cp < 2048 THEN <<192 + (cp \div 64), 128 + (cp % 64)>>
    ELSE IF cp >= 55296 /\ cp <= 57343 THEN UnicodeErrorRaised
    ELSE <<224 + (cp \div 4096), 128 + ((cp \div 64) % 64), 128 + (cp % 64)>>

RECURSIVE EncodeUtf8(_)
\* obj.encode("utf-8")
EncodeUtf8(cps) ==
    IF cps = <<>> THEN <<>>
    ELSE IF Len(cps) = 1 THEN Utf8Char(cps[1])
    ELSE LET Go(first, rest) ==
                 IF first = UnicodeErrorRaised \/ rest = UnicodeErrorRaised
                 THEN UnicodeErrorRaised
                 ELSE first \o rest
         IN  Go(EncodeUtf8(SubSeq(cps, 1, Len(cps) \div 2)),
                EncodeUtf8(SubSeq(cps, Len(cps) \div 2 + 1, Len(cps))))

\* the header of a str or bytes of n bytes
StrHeader(n) ==
    IF n <= 31 THEN <<160 + n>>
    ELSE IF n <= 65535 THEN <<218>> \o to_bytes_big(n, 2)
    ELSE <<219>> \o to_bytes_big(n, 4)

\* the header of a list or tuple of n items
ListHeader(n) ==
    IF n <= 15 THEN <<144 + n>>
    ELSE IF n <= 65535 THEN <<220>> \o to_bytes_big(n, 2)
    ELSE <<221>> \o to_bytes_big(n, 4)

\* the header of a dict of n entries
DictHeader(n) ==
    IF n <= 15 THEN <<128 + n>>
    ELSE IF n <= 65535 THEN <<222>> \o to_bytes_big(n, 2)
    ELSE <<223>> \o to_bytes_big(n, 4)

\* for k, v in obj.items(): the key is packed, then the value
PairOrder(pair) == <<pair[1], pair[2]>>

\* isinstance(obj, bool) is tested before isinstance(obj, int)
BoolFirst(b) == IF b = 1 THEN <<195>> ELSE <<194>>

RECURSIVE _msgpack_pack_obj(_), PackItems(_, _, _), PackPairs(_, _, _)
\* baseline: what _msgpack_pack_obj(obj, buf) appends to buf, or the error
\* it raises
_msgpack_pack_obj(obj) ==
    LET StrBytes(s) == IF s = UnicodeErrorRaised THEN s
                       ELSE StrHeader(Len(s)) \o s
    IN  CASE obj[1] = "none" -> <<192>>
          [] obj[1] = "bool" -> BoolFirst(obj[2][1])
          [] obj[1] = "int" -> PackIntBase(obj[2][1], Tail(obj[2]))
          [] obj[1] = "str" -> StrBytes(EncodeUtf8(obj[2]))
          [] obj[1] = "bytes" -> StrHeader(Len(obj[2])) \o obj[2]
          [] obj[1] \in {"list", "tuple"} ->
                PackItems(obj[2], 1, ListHeader(Len(obj[2])))
          [] obj[1] = "dict" ->
                PackPairs(obj[2], 1, DictHeader(Len(obj[2])))
          [] OTHER -> TypeErrorRaised

\* for x in obj: _msgpack_pack_obj(x, buf)
PackItems(items, i, buf) ==
    IF i > Len(items) THEN buf
    ELSE LET Go(r) == IF PackRaised(r) THEN r
                      ELSE PackItems(items, i + 1, buf \o r)
         IN  Go(_msgpack_pack_obj(items[i]))

\* for k, v in obj.items(): _msgpack_pack_obj(k, buf); _msgpack_pack_obj(v, buf)
PackPairs(pairs, i, buf) ==
    IF i > Len(pairs) THEN buf
    ELSE LET Go(r) == IF PackRaised(r) THEN r
                      ELSE PackPairs(pairs, i + 1, buf \o r)
         IN  Go(PackItems(PairOrder(pairs[i]), 1, <<>>))

\* baseline msgpack_pack(obj): bytes(buf), or the error that ended the call
msgpack_pack(obj) == _msgpack_pack_obj(obj)

\* an instance of a subclass of the type of obj (class MyInt(int), a dict
\* subclass, ...) holding the same data: isinstance(obj, T) still holds,
\* type(obj) is T does not
PySub(obj) == <<obj[1], obj[2], "subclass">>

\* the optimized encoders: _is_type(obj, typ) is type(obj) is typ
_is_type(obj, typ) == obj[1] = typ /\ Len(obj) = 2

\* v2 and v3: _pack_fused_int(val, buf): the buffer grows by bytes_needed and
\* the branch of the value writes at ptr
_pack_fused_int(neg, mag) ==
    SubSeq(PackIntWrites(neg, mag) \o Zeros(9), 1, BytesNeeded(neg, mag))

\* v2 and v3: _pack_int_optimized(obj, buf): <long long>obj raises
\* OverflowError outside [-2^63, 2^63 - 1]
_pack_int_optimized(neg, mag) ==
    IF ~FitsInt64(neg, mag) THEN OverflowErrorRaised
    ELSE _pack_fused_int(neg, mag)

\* v2: _pack_str_or_bytes_direct(buf, s_ptr, n): one resize by
\* header_size + n, the header, then the payload
_pack_str_or_bytes_direct(s) ==
    LET header_size == IF Len(s) <= 31 THEN 1
                       ELSE IF Len(s) <= 65535 THEN 3 ELSE 5
    IN  SubSeq(StrHeader(Len(s)), 1, header_size) \o s

\* v3: _pack_str_or_bytes_combined(buf, s_ptr, n)
_pack_str_or_bytes_combined(s) ==
    IF Len(s) <= 31 THEN <<160 + Len(s)>> \o s
    ELSE IF Len(s) <= 65535 THEN <<218>> \o to_bytes_big(Len(s), 2) \o s
    ELSE <<219>> \o to_bytes_big(Len(s), 4) \o s

\* PyDict_Next(obj, &pos, &key_ptr, &value_ptr) until it returns 0: each
\* key followed by its value, in insertion order
KeysAndValues(pairs) ==
    [i \in 1..(2 * Len(pairs)) |-> pairs[(i + 1) \div 2][2 - (i % 2)]] \o <<>>

RECURSIVE _msgpack_pack_obj_v2(_), PackItems_v2(_, _, _)
\* v2: what _msgpack_pack_obj(obj, buf) appends to buf, or the error it raises
_msgpack_pack_obj_v2(obj) ==
    LET StrBytes(s) == IF s = UnicodeErrorRaised THEN s
                       ELSE _pack_str_or_bytes_direct(s)
    IN  CASE obj[1] = "none" -> <<192>>
          [] _is_type(obj, "bool") -> IF obj[2][1] = 1 THEN <<195>> ELSE <<194>>
          [] _is_type(obj, "int") ->
                _pack_int_optimized(obj[2][1], Tail(obj[2]))
          [] _is_type(obj, "str") -> StrBytes(EncodeUtf8(obj[2]))
          [] _is_type(obj, "bytes") -> _pack_str_or_bytes_direct(obj[2])
          [] _is_type(obj, "list") \/ _is_type(obj, "tuple") ->
                PackItems_v2(obj[2], 1, ListHeader(Len(obj[2])))
          [] _is_type(obj, "dict") ->
                PackItems_v2(KeysAndValues(obj[2]), 1, DictHeader(Len(obj[2])))
          [] OTHER -> TypeErrorRaised

\* v2: for x in obj: _msgpack_pack_obj(x, buf), and the PyDict_Next loop over
\* key, value, key, value, ...
PackItems_v2(items, i, buf) ==
    IF i > Len(items) THEN buf
    ELSE LET Go(r) == IF PackRaised(r) THEN r
                      ELSE PackItems_v2(items, i + 1, buf \o r)
         IN  Go(_msgpack_pack_obj_v2(items[i]))

\* v2 msgpack_pack(obj)
msgpack_pack_v2(obj) == _msgpack_pack_obj_v2(obj)

RECURSIVE _msgpack_pack_obj_v3(_), PackItems_v3(_, _, _)
\* v3: what _msgpack_pack_obj(obj, buf) appends to buf, or the error it raises
_msgpack_pack_obj_v3(obj) ==
    LET StrBytes(s) == IF s = UnicodeErrorRaised THEN s
                       ELSE _pack_str_or_bytes_combined(s)
    IN  CASE obj[1] = "none" -> <<192>>
          [] _is_type(obj, "bool") -> IF obj[2][1] = 1 THEN <<195>> ELSE <<194>>
          [] _is_type(obj, "int") ->
                _pack_int_optimized(obj[2][1], Tail(obj[2]))
          [] _is_type(obj, "str") -> StrBytes(EncodeUtf8(obj[2]))
          [] _is_type(obj, "bytes") -> _pack_str_or_bytes_combined(obj[2])
          [] _is_type(obj, "list") \/ _is_type(obj, "tuple") ->
                PackItems_v3(obj[2], 1, ListHeader(Len(obj[2])))
          [] _is_type(obj, "dict") ->
                PackItems_v3(KeysAndValues(obj[2]), 1, DictHeader(Len(obj[2])))
          [] OTHER -> TypeErrorRaised

\* v3: _msgpack_pack_list and _msgpack_pack_dict: the items, or the keys and
\* values in PyDict_Next order, one after another
PackItems_v3(items, i, buf) ==
    IF i > Len(items) THEN buf
    ELSE LET Go(r) == IF PackRaised(r) THEN r
                      ELSE PackItems_v3(items, i + 1, buf \o r)
         IN  Go(_msgpack_pack_obj_v3(items[i]))

\* v3 msgpack_pack(obj)
msgpack_pack_v3(obj) == _msgpack_pack_obj_v3(obj)

-----------------------------------------------------------------------------
(* A reference MessagePack decoder, after the format's specification: it     *)
(* reads one value at position p (from 1) of bs and gives <<value, next>>.   *)

DecodeInvalid == <<"invalid", <<>> >>
DecodeFailed == <<DecodeInvalid, 0>>

RECURSIVE DecodeUtf8(_)
\* the code points of well-formed UTF-8 (up to three-byte forms), or <<-1>>
DecodeUtf8(bs) ==
    LET Rest(cp, n, ok) ==
            LET Cons(rest) == IF rest = <<-1>> THEN <<-1>> ELSE <<cp>> \o rest
            IN  IF ~ok THEN <<-1>>
                ELSE Cons(DecodeUtf8(SubSeq(bs, n + 1, Len(bs))))
        Cont(i) == i <= Len(bs) /\ bs[i] >= 128 /\ bs[i] <= 191
    IN  IF bs = <<>> THEN <<>>
        ELSE IF bs[1] < 128 THEN Rest(bs[1], 1, TRUE)
        ELSE IF bs[1] >= 194 /\ bs[1] < 224
        THEN (IF Cont(2)
              THEN Rest((bs[1] - 192) * 64 + (bs[2] - 128), 2, TRUE)
              ELSE <<-1>>)
        ELSE IF bs[1] >= 224 /\ bs[1] < 240
        THEN (IF Cont(2) /\ Cont(3)
              THEN LET cp == (bs[1] - 224) * 4096 + (bs[2] - 128) * 64
                             + (bs[3] - 128)
                   IN  Rest(cp, 3, cp >= 2048 /\ ~(cp >= 55296 /\ cp <= 57343))
              ELSE <<-1>>)
        ELSE <<-1>>

\* the int that n bytes hold as an unsigned and as a two's-complement number
DecodeUInt(bs) == PyInt(0, Zeros(9 - Len(bs)) \o bs)
DecodeSInt(bs) ==
    IF bs[1] < 128 THEN DecodeUInt(bs)
    ELSE PyInt(1, Zeros(9 - Len(bs))
                  \o IncBytes([i \in 1..Len(bs) |-> 255 - bs[i]] \o <<>>))

\* the length that the n bytes at p hold, or -1
DecodeLen(bs, p, n) ==
    IF p + n - 1 > Len(bs) THEN -1
    ELSE IF n = 4 /\ bs[p] >= 128 THEN -1
    ELSE from_bytes_big(SubSeq(bs, p, p + n - 1))

RECURSIVE DecodeAt(_, _), DecodeItems(_, _, _, _)
DecodeAt(bs, p) ==
    LET Fixed(n, signed) ==
            IF p + n > Len(bs) THEN DecodeFailed
            ELSE IF signed
            THEN <<DecodeSInt(SubSeq(bs, p + 1, p + n)), p + n + 1>>
            ELSE <<DecodeUInt(SubSeq(bs, p + 1, p + n)), p + n + 1>>
        AsStr(cps) == IF cps = <<-1>> THEN DecodeInvalid ELSE PyStr(cps)
        Got(v, next) == IF v = DecodeInvalid THEN DecodeFailed
                        ELSE <<v, next>>
        Str(hdr, n) ==
            IF n < 0 \/ p + hdr + n - 1 > Len(bs) THEN DecodeFailed
            ELSE Got(AsStr(DecodeUtf8(SubSeq(bs, p + hdr, p + hdr + n - 1))),
                     p + hdr + n)
        Bin(hdr, n) ==
            IF n < 0 \/ p + hdr + n - 1 > Len(bs) THEN DecodeFailed
            ELSE <<PyBytes(SubSeq(bs, p + hdr, p + hdr + n - 1)), p + hdr + n>>
        Pairs(items) ==
            [i \in 1..(Len(items) \div 2) |->
                <<items[2 * i - 1], items[2 * i]>>] \o <<>>
        Array(r) == IF r = DecodeFailed THEN r ELSE <<PyList(r[1]), r[2]>>
        Map(r) == IF r = DecodeFailed THEN r
                  ELSE <<PyDict(Pairs(r[1])), r[2]>>
        Arr(hdr, n) == IF n < 0 THEN DecodeFailed
                       ELSE Array(DecodeItems(bs, p + hdr, n, <<>>))
        Mp(hdr, n) == IF n < 0 THEN DecodeFailed
                      ELSE Map(DecodeItems(bs, p + hdr, 2 * n, <<>>))
        t == IF p <= Len(bs) THEN bs[p] ELSE 193
    IN  CASE t <= 127 -> <<PyInt(0, Mag(t)), p + 1>>
          [] t >= 224 -> <<PyInt(1, Mag(256 - t)), p + 1>>
          [] t = 192 -> <<PyNone, p + 1>>
          [] t = 194 -> <<PyBool(FALSE), p + 1>>
          [] t = 195 -> <<PyBool(TRUE), p + 1>>
          [] t = 204 -> Fixed(1, FALSE)
          [] t = 205 -> Fixed(2, FALSE)
          [] t = 206 -> Fixed(4, FALSE)
          [] t = 207 -> Fixed(8, FALSE)
          [] t = 208 -> Fixed(1, TRUE)
          [] t = 209 -> Fixed(2, TRUE)
          [] t = 210 -> Fixed(4, TRUE)
          [] t = 211 -> Fixed(8, TRUE)
          [] t >= 160 /\ t <= 191 -> Str(1, t - 160)
          [] t = 217 -> Str(2, DecodeLen(bs, p + 1, 1))
          [] t = 218 -> Str(3, DecodeLen(bs, p + 1, 2))
          [] t = 219 -> Str(5, DecodeLen(bs, p + 1, 4))
          [] t = 196 -> Bin(2, DecodeLen(bs, p + 1, 1))
          [] t = 197 -> Bin(3, DecodeLen(bs, p + 1, 2))
          [] t = 198 -> Bin(5, DecodeLen(bs, p + 1, 4))
          [] t >= 144 /\ t <= 159 -> Arr(1, t - 144)
          [] t = 220 -> Arr(3, DecodeLen(bs, p + 1, 2))
          [] t = 221 -> Arr(5, DecodeLen(bs, p + 1, 4))
          [] t >= 128 /\ t <= 143 -> Mp(1, t - 128)
          [] t = 222 -> Mp(3, DecodeLen(bs, p + 1, 2))
          [] t = 223 -> Mp(5, DecodeLen(bs, p + 1, 4))
          [] OTHER -> DecodeFailed

\* the n values from position p on
DecodeItems(bs, p, n, acc) ==
    IF n = 0 THEN <<acc, p>>
    ELSE LET Go(r) == IF r = DecodeFailed THEN r
                      ELSE DecodeItems(bs, r[2], n - 1, Append(acc, r[1]))
         IN  Go(DecodeAt(bs, p))

\* the value that the whole of bs encodes, or DecodeInvalid
Decode(bs) ==
    LET Whole(r) == IF r[2] = Len(bs) + 1 THEN r[1] ELSE DecodeInvalid
    IN  Whole(DecodeAt(bs, 1))

-----------------------------------------------------------------------------
(* State: one invocation record per component.  The operations are pure      *)
(* functions of their byte inputs; a record holds the inputs of the call,    *)
(* its position and what it returned.                                        *)

VARIABLES kc, sp, ed, bp, mp, ei

vars == <<kc, sp, ed, bp, mp, ei>>

\* a component no call of which is in progress
Idle == [pc |-> "idle"]

-----------------------------------------------------------------------------
(* Keccak-256 invocations, block by block                                    *)

MaxDataLen == 273
EdgeWidth == 1

\* input lengths within EdgeWidth of a multiple of the rate
DataLens == {n \in 0..MaxDataLen :
                \/ n % rate_bytes <= EdgeWidth
                \/ n % rate_bytes >= rate_bytes - 1 - EdgeWidth}

DataFills == {0, 97}

DataOf(n, fill) == [i \in 1..n |-> (fill + i) % 256] \o <<>>

KeccakInit ==
    /\ \E impl \in {"base", "opt"}, n \in DataLens, fill \in DataFills :
          kc = [pc |-> "start", impl |-> impl, data |-> DataOf(n, fill),
                padded |-> <<>>, block_start |-> 0, state |-> ZeroState,
                absorbed |-> <<>>, out |-> <<>>]
    /\ sp = Idle
    /\ ed = Idle
    /\ bp = Idle
    /\ mp = Idle
    /\ ei = Idle

\* baseline: build the padded byte string and zero the state
BasePad ==
    /\ kc.pc = "start" /\ kc.impl = "base"
    /\ kc' = [kc EXCEPT !.pc = "absorb", !.padded = keccak_padded(kc.data)]
    /\ UNCHANGED <<sp, ed, bp, mp, ei>>

\* baseline: one iteration of for block_start in range(0, len(padded), 136)
BaseAbsorb ==
    /\ kc.pc = "absorb" /\ kc.impl = "base"
    /\ kc.block_start < Len(kc.padded)
    /\ LET lanes == BlockLanes(kc.padded, kc.block_start)
       IN  kc' = [kc EXCEPT !.state = _keccak_f(XorBlock(kc.state, lanes)),
                            !.absorbed = Append(kc.absorbed, lanes),
                            !.block_start = kc.block_start + rate_bytes]
    /\ UNCHANGED <<sp, ed, bp, mp, ei>>

\* baseline: the loop is over; write the digest
BaseSqueeze ==
    /\ kc.pc = "absorb" /\ kc.impl = "base"
    /\ kc.block_start >= Len(kc.padded)
    /\ kc' = [kc EXCEPT !.pc = "done", !.out = Squeeze(kc.state)]
    /\ UNCHANGED <<sp, ed, bp, mp, ei>>

\* optimized: one iteration of while block_start + RATE_BYTES <= data_len
OptFull ==
    /\ kc.pc = "start" /\ kc.impl = "opt"
    /\ kc.block_start + RATE_BYTES <= Len(kc.data)
    /\ LET lanes == LoadBlock(kc.data, kc.block_start)
       IN  kc' = [kc EXCEPT !.state = AbsorbFlat(kc.state, lanes),
                            !.absorbed = Append(kc.absorbed, lanes),
                            !.block_start = kc.block_start + RATE_BYTES]
    /\ UNCHANGED <<sp, ed, bp, mp, ei>>

\* optimized: the padding branch after the loop (zero, one or two blocks)
OptPad ==
    /\ kc.pc = "start" /\ kc.impl = "opt"
    /\ kc.block_start + RATE_BYTES > Len(kc.data)
    /\ LET temps == OptPadBlocks(kc.data, kc.block_start)
       IN  kc' = [kc EXCEPT
                    !.pc = "squeeze",
                    !.state = OptAbsorbPad(kc.state, temps, 1),
                    !.absorbed = kc.absorbed
                        \o [k \in 1..Len(temps) |-> LoadBlock(temps[k], 0)]]
    /\ UNCHANGED <<sp, ed, bp, mp, ei>>

\* optimized: write the digest
OptOut ==
    /\ kc.pc = "squeeze" /\ kc.impl = "opt"
    /\ kc' = [kc EXCEPT !.pc = "done", !.out = OptSqueeze(kc.state)]
    /\ UNCHANGED <<sp, ed, bp, mp, ei>>

KeccakNext ==
    \/ BasePad
    \/ BaseAbsorb
    \/ BaseSqueeze
    \/ OptFull
    \/ OptPad
    \/ OptOut

SpecKeccak == KeccakInit /\ [][KeccakNext]_vars

\* the 17 lanes of a 136-byte block
LanesOfBlock(block) == LoadBlock(block, 0)

\* 0x01, 134 zero bytes, 0x80
PadOnlyBlock == <<1>> \o Zeros(rate_bytes - 2) \o <<128>>

\* C3: when the input length is 135 modulo 136, exactly floor(len / 136) + 1
\* blocks are absorbed and the last one is the final 135 data bytes followed
\* by the single byte 0x81.
C3_Rate1SingleBlock ==
    (kc.pc = "done" /\ Len(kc.data) % rate_bytes = rate_bytes - 1)
    => /\ Len(kc.absorbed) = (Len(kc.data) \div rate_bytes) + 1
       /\ kc.absorbed[Len(kc.absorbed)]
            = LanesOfBlock(Slice(kc.data, Len(kc.data) - (rate_bytes - 1),
                                 Len(kc.data)) \o <<129>>)

\* C4: a non-empty input whose length is a multiple of 136 gets, after its
\* len / 136 data blocks, one more block 0x01, 0 x 134, 0x80, so that
\* len / 136 + 1 blocks are absorbed (the count floor(len / 136) + 1 of every
\* input length).
C4_FullBlockGetsPadBlock ==
    /\ (kc.pc = "done" /\ Len(kc.data) > 0 /\ Len(kc.data) % rate_bytes = 0)
       => /\ Len(kc.absorbed) = (Len(kc.data) \div rate_bytes) + 1
          /\ kc.absorbed[Len(kc.absorbed)] = LanesOfBlock(PadOnlyBlock)
    /\ kc.pc = "done"
       => Len(kc.absorbed) = (Len(kc.data) \div rate_bytes) + 1

-----------------------------------------------------------------------------
(* secp256k1 invocations                                                     *)

MaxKeyVal == 69
MaxHashVal == 1
BigHashVal == 1000

\* private keys: 32-byte encodings of 0..MaxKeyVal, and a 31- and a 33-byte one
PrivKeys == {to_bytes_big(v, 32) : v \in 0..MaxKeyVal}
            \cup {to_bytes_big(1, 31), to_bytes_big(1, 33)}

\* message hashes: 32-byte encodings, and a 31-byte one
MsgHashes == {to_bytes_big(z, 32) : z \in (0..MaxHashVal) \cup {BigHashVal}}
             \cup {to_bytes_big(1, 31)}

SecpCall(privkey, msg_hash, r, s, recid) ==
    [pc |-> "start", privkey |-> privkey, msg_hash |-> msg_hash,
     r |-> r, s |-> s, recid |-> recid, sig |-> <<>>, out |-> <<>>]

SecpInit ==
    /\ \E privkey \in PrivKeys, msg_hash \in MsgHashes :
          sp = SecpCall(privkey, msg_hash, 0, 0, 0)
    /\ kc = Idle
    /\ ed = Idle
    /\ bp = Idle
    /\ mp = Idle
    /\ ei = Idle

DoPubkey ==
    /\ sp.pc = "start"
    /\ sp' = [sp EXCEPT !.pc = "pubkey", !.out = privkey_to_pubkey(sp.privkey)]
    /\ UNCHANGED <<kc, ed, bp, mp, ei>>

DoAddress ==
    /\ sp.pc = "start"
    /\ sp' = [sp EXCEPT !.pc = "address",
                        !.out = privkey_to_address(sp.privkey)]
    /\ UNCHANGED <<kc, ed, bp, mp, ei>>

DoSign ==
    /\ sp.pc = "start"
    /\ sp' = [sp EXCEPT !.pc = "signed",
                        !.sig = sign_recoverable(sp.privkey, sp.msg_hash)]
    /\ UNCHANGED <<kc, ed, bp, mp, ei>>

\* recover_pubkey(h, r, s, v - 27) on the triple that sign_recoverable returned
DoRecoverSigned ==
    /\ sp.pc = "signed"
    /\ sp.sig # <<Raised>>
    /\ sp' = [sp EXCEPT !.pc = "recovered",
                        !.r = sp.sig[1], !.s = sp.sig[2],
                        !.recid = sp.sig[3] - 27,
                        !.out = recover_pubkey(sp.msg_hash, sp.sig[1],
                                               sp.sig[2], sp.sig[3] - 27)]
    /\ UNCHANGED <<kc, ed, bp, mp, ei>>

SecpNext ==
    \/ DoPubkey
    \/ DoAddress
    \/ DoSign
    \/ DoRecoverSigned

SpecSecp == SecpInit /\ [][SecpNext]_vars

\* a key that is not 32 bytes, or whose value is 0 or >= N
BadKey(privkey) ==
    \/ Len(privkey) # 32
    \/ from_bytes_big(privkey) = 0
    \/ from_bytes_big(privkey) >= secp_N

\* C1: whenever sign_recoverable(d, h) returned (r, s, v), what
\* recover_pubkey(h, r, s, v - 27) returns is a public key, and it is
\* privkey_to_pubkey(d).
C1_RecoverRoundTrip ==
    sp.pc = "recovered"
    => /\ sp.out # BytesRaised
       /\ sp.out = privkey_to_pubkey(sp.privkey)

C1_Witness ==
    /\ sp.pc = "recovered"
    /\ sp.recid >= 2
    /\ sp.out = privkey_to_pubkey(sp.privkey)

\* C2: the address of a valid key is "0x" + hex of the last 20 bytes of
\* keccak256 over the 64 bytes X || Y, the public key without its 0x04 byte.
C2_AddressHashesXY ==
    (sp.pc = "address" /\ sp.out # <<Raised>>)
    => sp.out = <<"0", "x">>
                \o hex(Slice(keccak256(Tail(privkey_to_pubkey(sp.privkey))),
                             12, 32))

\* C6: a triple (r, s, v) that sign_recoverable returned has 1 <= r <= N - 1,
\* 1 <= s <= N / 2 and v in 27..30.
C6_SignatureWellFormed ==
    (sp.pc = "signed" /\ sp.sig # <<Raised>>)
    => /\ Len(sp.sig) = 3
       /\ sp.sig[1] >= 1 /\ sp.sig[1] <= secp_N - 1
       /\ sp.sig[2] >= 1 /\ 2 * sp.sig[2] <= secp_N
       /\ sp.sig[3] \in 27..30

C6_Witness ==
    /\ sp.pc = "signed"
    /\ Len(sp.sig) = 3
    /\ sp.sig[2] = secp_N \div 2

\* C7: with a key that is not 32 bytes, or of value 0 or >= N,
\* privkey_to_pubkey ends in an error and so does sign_recoverable.
C7_BadKeyRaises ==
    /\ (sp.pc = "pubkey" /\ BadKey(sp.privkey)) => sp.out = BytesRaised
    /\ (sp.pc = "signed" /\ BadKey(sp.privkey)) => sp.sig = <<Raised>>

C7_Witness ==
    /\ sp.pc = "signed"
    /\ Len(sp.privkey) = 32
    /\ Len(sp.msg_hash) = 32
    /\ from_bytes_big(sp.privkey) > secp_N
    /\ sp.sig = <<Raised>>

-----------------------------------------------------------------------------
(* recover_pubkey on arbitrary scalars                                       *)

MaxScalarArg == 68

\* r over 0..MaxScalarArg; s at the edges of [1, N - 1] and in its middle
RArgs == 0..MaxScalarArg
SArgs == {0, 1, secp_N \div 2, secp_N - 1, secp_N, secp_N + 1}

RecoverInit ==
    /\ \E msg_hash \in MsgHashes, r \in RArgs, s \in SArgs, recid \in 0..3 :
          sp = SecpCall(<<>>, msg_hash, r, s, recid)
    /\ kc = Idle
    /\ ed = Idle
    /\ bp = Idle
    /\ mp = Idle
    /\ ei = Idle

DoRecover ==
    /\ sp.pc = "start"
    /\ sp' = [sp EXCEPT !.pc = "recover",
                        !.out = recover_pubkey(sp.msg_hash, sp.r, sp.s, sp.recid)]
    /\ UNCHANGED <<kc, ed, bp, mp, ei>>

SpecRecover == RecoverInit /\ [][DoRecover]_vars

\* C5: recover_pubkey ends in an error whenever r or s is outside [1, N - 1].
C5_OutOfRangeFails ==
    (/\ sp.pc = "recover"
     /\ Len(sp.msg_hash) = 32
     /\ \/ sp.r < 1 \/ sp.r > secp_N - 1
        \/ sp.s < 1 \/ sp.s > secp_N - 1)
    => sp.out = BytesRaised

-----------------------------------------------------------------------------
(* Ed25519 invocations: key, signature, verification, and verification of   *)
(* a signature or key that was altered after signing                         *)

MaxSeedVal == 2
MaxSVal == 80

\* seeds: 32-byte encodings of 0..MaxSeedVal, and a 31-byte one
Seeds == {to_bytes_little(v, 32) : v \in 0..MaxSeedVal}
         \cup {to_bytes_little(1, 31)}

EdMessages == {<<>>, <<1>>, <<2, 3>>}

\* every 32-byte string that has no bit set above the sign bit
EncVals == 0..(2 ^ (ed_bits + 1) - 1)

EdInit ==
    /\ \E seed \in Seeds, message \in EdMessages :
          ed = [pc |-> "start", seed |-> seed, message |-> message,
                public_key |-> <<>>, signature |-> <<>>,
                altered |-> FALSE, ok |-> FALSE]
    /\ kc = Idle
    /\ sp = Idle
    /\ bp = Idle
    /\ mp = Idle
    /\ ei = Idle

EdPublicKey ==
    /\ ed.pc = "start"
    /\ LET Key(pk) ==
               ed' = [ed EXCEPT !.pc = IF pk = BytesRaised THEN "raised"
                                       ELSE "keyed",
                                !.public_key = pk]
       IN  Key(ed25519_public_key(ed.seed))
    /\ UNCHANGED <<kc, sp, bp, mp, ei>>

EdSign ==
    /\ ed.pc = "keyed"
    /\ ed' = [ed EXCEPT !.pc = "signed",
                        !.signature = ed25519_sign(ed.message, ed.seed)]
    /\ UNCHANGED <<kc, sp, bp, mp, ei>>

EdVerify ==
    /\ ed.pc = "signed"
    /\ ed' = [ed EXCEPT !.pc = "verified",
                        !.ok = ed25519_verify(ed.message, ed.signature,
                                              ed.public_key)]
    /\ UNCHANGED <<kc, sp, bp, mp, ei>>

\* the caller passes another 32-byte public key
EdAlterKey ==
    /\ ed.pc = "signed" /\ ~ed.altered
    /\ \E v \in EncVals :
          ed' = [ed EXCEPT !.altered = TRUE,
                           !.public_key = to_bytes_little(v, 32)]
    /\ UNCHANGED <<kc, sp, bp, mp, ei>>

\* the caller passes other bytes as the first half of the signature
EdAlterR ==
    /\ ed.pc = "signed" /\ ~ed.altered
    /\ \E v \in EncVals :
          ed' = [ed EXCEPT !.altered = TRUE,
                           !.signature = to_bytes_little(v, 32)
                                         \o SubSeq(ed.signature, 33, 64)]
    /\ UNCHANGED <<kc, sp, bp, mp, ei>>

\* the caller passes another scalar as the second half of the signature
EdAlterS ==
    /\ ed.pc = "signed" /\ ~ed.altered
    /\ \E v \in 0..MaxSVal :
          ed' = [ed EXCEPT !.altered = TRUE,
                           !.signature = SubSeq(ed.signature, 1, 32)
                                         \o to_bytes_little(v, 32)]
    /\ UNCHANGED <<kc, sp, bp, mp, ei>>

\* the caller passes a signature or a key one byte short or long
EdAlterLen ==
    /\ ed.pc = "signed" /\ ~ed.altered
    /\ \/ ed' = [ed EXCEPT !.altered = TRUE,
                           !.signature = SubSeq(ed.signature, 1, 63)]
       \/ ed' = [ed EXCEPT !.altered = TRUE,
                           !.signature = ed.signature \o <<0>>]
       \/ ed' = [ed EXCEPT !.altered = TRUE,
                           !.public_key = SubSeq(ed.public_key, 1, 31)]
       \/ ed' = [ed EXCEPT !.altered = TRUE,
                           !.public_key = ed.public_key \o <<0>>]
    /\ UNCHANGED <<kc, sp, bp, mp, ei>>

EdNext ==
    \/ EdPublicKey
    \/ EdSign
    \/ EdVerify
    \/ EdAlterKey
    \/ EdAlterR
    \/ EdAlterS
    \/ EdAlterLen

SpecEd == EdInit /\ [][EdNext]_vars

\* the scalar s read from the last 32 bytes of a 64-byte signature
EdScalarOf(signature) == from_bytes_little(SubSeq(signature, 33, 64))

\* enc is 32 bytes that encode no point: y >= P, or no x of the encoded
\* sign satisfies -x^2 + y^2 = 1 + D x^2 y^2
EdNoPoint(enc) ==
    LET v == from_bytes_little(enc)
        sign == v \div (2 ^ ed_bits)
        y == v % (2 ^ ed_bits)
    IN  \/ y >= ed_P
        \/ ~ \E x \in 0..(ed_P - 1) :
                /\ x % 2 = sign
                /\ (y * y - x * x - 1
                    - ed_D * (((x * x) % ed_P) * ((y * y) % ed_P) % ed_P))
                   % ed_P = 0

\* C8: verifying, with the public key of the seed, the signature that
\* ed25519_sign made with that seed returns true; the signature is 64 bytes
\* whose second half is a scalar below L.
C8_SignThenVerify ==
    (ed.pc = "verified" /\ ~ed.altered)
    => /\ ed.ok = TRUE
       /\ Len(ed.signature) = 64
       /\ EdScalarOf(ed.signature) < ed_L

C8_Witness ==
    /\ ed.pc = "verified" /\ ~ed.altered
    /\ ed.message # <<>>
    /\ EdScalarOf(ed.signature) > 0
    /\ ed.ok

\* C9: ed25519_verify returns false when the signature is not 64 bytes, the
\* key is not 32 bytes, the key or the first half of the signature encodes
\* no point, or the scalar s is >= L.
C9_MalformedRejected ==
    (/\ ed.pc = "verified"
     /\ \/ Len(ed.signature) # 64
        \/ Len(ed.public_key) # 32
        \/ EdNoPoint(ed.public_key)
        \/ EdNoPoint(SubSeq(ed.signature, 1, 32))
        \/ EdScalarOf(ed.signature) >= ed_L)
    => ed.ok = FALSE

\* a signature that verifies once L is taken off its scalar was rejected
C9_Witness ==
    /\ ed.pc = "verified"
    /\ Len(ed.signature) = 64
    /\ EdScalarOf(ed.signature) >= ed_L
    /\ ed25519_verify(ed.message,
                      SubSeq(ed.signature, 1, 32)
                      \o to_bytes_little(EdScalarOf(ed.signature) - ed_L, 32),
                      ed.public_key)
    /\ ed.ok = FALSE

-----------------------------------------------------------------------------
(* BIP-137 invocations                                                       *)

MaxBipKey == 11

\* private keys: 32-byte encodings of 0..MaxBipKey
BipKeys == {to_bytes_big(v, 32) : v \in 0..MaxBipKey}

BipMessages == {<<>>, <<1>>, <<2, 3>>}

BipInit ==
    /\ \E privkey \in BipKeys, message \in BipMessages :
          bp = [pc |-> "start", privkey |-> privkey, message |-> message,
                recid |-> -1, header |-> -1, signature_b64 |-> <<>>,
                dec_len |-> -1, vrecid |-> -1, ok |-> FALSE]
    /\ kc = Idle
    /\ sp = Idle
    /\ ed = Idle
    /\ mp = Idle
    /\ ei = Idle

\* bip137_sign_message: recid and header are its locals
BipSign ==
    /\ bp.pc = "start"
    /\ LET Signed(rsv) ==
               IF rsv = <<Raised>>
               THEN bp' = [bp EXCEPT !.pc = "raised"]
               ELSE bp' = [bp EXCEPT
                             !.pc = "signed",
                             !.recid = rsv[3] - 27,
                             !.header = HeaderOf(rsv[3] - 27),
                             !.signature_b64 =
                                 EVP_EncodeBlock(BipSigBytes(rsv))]
       IN  Signed(sign_recoverable(bp.privkey,
                                   bip137_signed_message_hash(bp.message)))
    /\ UNCHANGED <<kc, sp, ed, mp, ei>>

\* the caller passes the text without its last four characters
BipTruncate ==
    /\ bp.pc = "signed"
    /\ Len(bp.signature_b64) = 88
    /\ bp' = [bp EXCEPT !.signature_b64 = SubSeq(bp.signature_b64, 1, 84)]
    /\ UNCHANGED <<kc, sp, ed, mp, ei>>

\* bip137_verify_message with the signer's public key: dec_len and recid are
\* its locals
BipVerify ==
    /\ bp.pc = "signed"
    /\ LET Verified(dec) ==
               bp' = [bp EXCEPT
                        !.pc = "verified",
                        !.dec_len = dec[1],
                        !.vrecid = IF dec[1] < 65 THEN -1
                                   ELSE BipRecid(dec[2]),
                        !.ok = bip137_verify_message(
                                   bp.message, bp.signature_b64,
                                   privkey_to_pubkey(bp.privkey))]
       IN  Verified(EVP_DecodeBlock(bp.signature_b64))
    /\ UNCHANGED <<kc, sp, ed, mp, ei>>

\* the caller passes the text with its padding character replaced by "A":
\* the Base64 of the same 65 bytes followed by one more byte
BipExtend ==
    /\ bp.pc = "signed"
    /\ Len(bp.signature_b64) = 88
    /\ bp.signature_b64[88] = "="
    /\ bp' = [bp EXCEPT !.signature_b64 =
                            SubSeq(bp.signature_b64, 1, 87) \o <<"A">>]
    /\ UNCHANGED <<kc, sp, ed, mp, ei>>

BipNext ==
    \/ BipSign
    \/ BipTruncate
    \/ BipExtend
    \/ BipVerify

SpecBip == BipInit /\ [][BipNext]_vars

\* C10: the recovery id that verification extracts from the header byte,
\* header & 3, is the recovery id for which signing wrote that byte.
C10_HeaderRoundTrip ==
    (bp.pc = "verified" /\ bp.dec_len >= 65)
    => /\ bp.header = (IF bp.recid < 3 THEN 32 + bp.recid ELSE 31)
       /\ bp.vrecid = bp.recid

C10_Witness ==
    /\ bp.pc = "verified"
    /\ bp.recid = 3
    /\ bp.header = 31
    /\ bp.vrecid = 3
    /\ bp.ok

\* the first byte of the 65 bytes that the emitted text encodes
BipFirstByte == EVP_DecodeBlock(bp.signature_b64)[2][1]

\* the number of bytes a Base64 text of full groups encodes: three per group,
\* less one per trailing "="
B64DecodedLen(text) ==
    3 * (Len(text) \div 4)
    - Cardinality({i \in 1..Len(text) :
                      /\ i > Len(text) - 2
                      /\ \A j \in i..Len(text) : text[j] = "="})

\* C11 as stated: the first byte of an emitted signature is 31 + recid when
\* recid >= 3 and 32 + recid otherwise, for recid = v - 27.
C11_HeaderAsStated ==
    (bp.pc = "signed" /\ Len(bp.signature_b64) = 88
     /\ bp.signature_b64[88] = "=")
    => BipFirstByte = (IF bp.recid >= 3 THEN 31 + bp.recid ELSE 32 + bp.recid)

\* C11 amended: the first byte of an emitted signature is 31 when recid = 3
\* and 32 + recid when recid is 0, 1 or 2, for recid = v - 27.
C11_HeaderByte ==
    (bp.pc = "signed" /\ Len(bp.signature_b64) = 88
     /\ bp.signature_b64[88] = "=")
    => /\ bp.recid \in 0..3
       /\ BipFirstByte = (IF bp.recid = 3 THEN 31 ELSE 32 + bp.recid)

C11_Witness ==
    /\ bp.pc = "signed"
    /\ Len(bp.signature_b64) = 88
    /\ bp.signature_b64[88] = "="
    /\ bp.recid = 3
    /\ BipFirstByte = 31

\* C12: bip137_verify_message returns false for every text whose Base64
\* decoding is not exactly 65 bytes long, shorter or longer.
C12_Exactly65 ==
    (bp.pc = "verified" /\ B64DecodedLen(bp.signature_b64) # 65)
    => bp.ok = FALSE

-----------------------------------------------------------------------------
(* MessagePack invocations: msgpack_pack of a value, and the reference       *)
(* decoder run on what it returned                                           *)

MaxItems == 16
MaxStrLen == 32

\* 2^k - 1, 2^k and 2^k + 1 as magnitudes
MagPow2(k) == [i \in 1..9 |-> IF 9 - i = k \div 8 THEN Pow2(k % 8) ELSE 0] \o <<>>
MagPow2m1(k) ==
    [i \in 1..9 |-> IF 9 - i < k \div 8 THEN 255
                    ELSE IF 9 - i = k \div 8 THEN Pow2(k % 8) - 1
                    ELSE 0] \o <<>>
MagPow2p1(k) ==
    [i \in 1..9 |-> IF i = 9 THEN MagPow2(k)[9] + 1 ELSE MagPow2(k)[i]] \o <<>>

\* the exponents at which the encoding changes its form
IntEdges == {5, 7, 8, 15, 16, 31, 32, 63, 64}

PackMags == {Mag(0), Mag(1), Mag(100)}
            \cup {MagPow2m1(k) : k \in IntEdges}
            \cup {MagPow2(k) : k \in IntEdges}
            \cup {MagPow2p1(k) : k \in IntEdges}

PackInts == {PyInt(0, m) : m \in PackMags}
            \cup {PyInt(1, m) : m \in PackMags \ {Mag(0)}}

Py(n) == PyInt(0, Mag(n))
PyBig == PyInt(0, MagPow2(63))
StrOf(n) == PyStr([i \in 1..n |-> 97] \o <<>>)
Nones(n) == [i \in 1..n |-> PyNone] \o <<>>

PackStrs == {StrOf(0), StrOf(1), StrOf(MaxStrLen - 1), StrOf(MaxStrLen),
             PyStr(<<233>>), PyStr(<<8364, 120>>), PyStr(<<55296>>)}

PackByteStrings == {PyBytes(<<>>), PyBytes(<<97>>), PyBytes(<<255, 0>>)}

PackLists ==
    {PyList(<<>>), PyList(<<Py(1), StrOf(1)>>), PyTuple(<<Py(1)>>),
     PyList(<<PyBool(TRUE), Py(1)>>), PyList(Nones(MaxItems - 1)),
     PyList(Nones(MaxItems)), PyList(<<PyList(<<Py(1)>>), PyList(<<>>)>>),
     PyList(<<PyFloat>>), PyList(<<Py(1), PyList(<<PyFloat>>)>>),
     PyList(<<PyBig, PyFloat>>), PyList(<<PyStr(<<55296>>), PyFloat>>),
     PyList(<<PyBig>>)}

PackDicts ==
    {PyDict(<<>>), PyDict(<< <<StrOf(1), Py(1)>> >>),
     PyDict(<< <<PyStr(<<98>>), Py(1)>>, <<PyStr(<<97>>), Py(2)>> >>),
     PyDict(<< <<PyStr(<<97>>), Py(2)>>, <<PyStr(<<98>>), Py(1)>> >>),
     PyDict(<< <<StrOf(1),
                 PyDict(<< <<PyStr(<<122>>), Py(1)>>,
                           <<PyStr(<<121>>), PyNone>> >>)>>,
               <<Py(3), PyList(<<Py(4)>>)>> >>),
     PyDict([i \in 1..MaxItems |-> <<Py(i), PyNone>>] \o <<>>),
     PyDict(<< <<StrOf(1), PyBytes(<<97>>)>> >>),
     PyDict(<< <<StrOf(1), PyFloat>> >>),
     PyDict(<< <<PyFloat, Py(1)>> >>),
     PyDict(<< <<StrOf(1), PyBig>> >>)}

PackValues == {PyNone, PyBool(TRUE), PyBool(FALSE), PyFloat}
              \cup PackInts \cup PackStrs \cup PackByteStrings
              \cup PackLists \cup PackDicts

PackInit ==
    /\ \E impl \in {"base", "direct"}, obj \in PackValues :
          /\ impl = "direct" => obj \in PackInts
          /\ mp = [pc |-> "start", impl |-> impl, obj |-> obj,
                   out |-> <<>>, again |-> <<>>, dec |-> DecodeInvalid]
    /\ kc = Idle
    /\ sp = Idle
    /\ ed = Idle
    /\ bp = Idle
    /\ ei = Idle

\* baseline msgpack_pack(obj)
PackBase ==
    /\ mp.pc = "start" /\ mp.impl = "base"
    /\ mp' = [mp EXCEPT !.pc = "packed", !.out = msgpack_pack(mp.obj)]
    /\ UNCHANGED <<kc, sp, ed, bp, ei>>

\* direct-write msgpack_pack(obj) of an int
PackDirect ==
    /\ mp.pc = "start" /\ mp.impl = "direct"
    /\ mp' = [mp EXCEPT !.pc = "packed",
                        !.out = PackIntDirect(mp.obj[2][1], Tail(mp.obj[2]))]
    /\ UNCHANGED <<kc, sp, ed, bp, ei>>

\* the caller packs the same value once more
PackAgain ==
    /\ mp.pc = "packed" /\ mp.impl = "base"
    /\ mp' = [mp EXCEPT !.pc = "repacked", !.again = msgpack_pack(mp.obj)]
    /\ UNCHANGED <<kc, sp, ed, bp, ei>>

\* the reference decoder reads the bytes that were returned
PackDecode ==
    /\ mp.pc = "packed"
    /\ ~PackRaised(mp.out)
    /\ mp' = [mp EXCEPT !.pc = "decoded", !.dec = Decode(mp.out)]
    /\ UNCHANGED <<kc, sp, ed, bp, ei>>

PackNext ==
    \/ PackBase
    \/ PackDirect
    \/ PackAgain
    \/ PackDecode

SpecPack == PackInit /\ [][PackNext]_vars

\* -2^63 <= v <= 2^64 - 1
InPackRange(obj) ==
    IF IntNeg(obj) THEN MagLE(IntMag(obj), MagPow2(63))
    ELSE MagLT(IntMag(obj), MagPow2(64))

\* the form that the value range of an int selects: <<first byte, length>>,
\* with first byte -1 for the one-byte forms
NarrowestForm(obj) ==
    LET m == IntMag(obj)
    IN  IF IntNeg(obj)
        THEN (IF MagLE(m, Mag(32)) THEN <<-1, 1>>
              ELSE IF MagLE(m, MagPow2(7)) THEN <<208, 2>>
              ELSE IF MagLE(m, MagPow2(15)) THEN <<209, 3>>
              ELSE IF MagLE(m, MagPow2(31)) THEN <<210, 5>>
              ELSE <<211, 9>>)
        ELSE (IF MagLE(m, Mag(127)) THEN <<-1, 1>>
              ELSE IF MagLT(m, MagPow2(8)) THEN <<204, 2>>
              ELSE IF MagLT(m, MagPow2(16)) THEN <<205, 3>>
              ELSE IF MagLT(m, MagPow2(32)) THEN <<206, 5>>
              ELSE <<207, 9>>)

\* out is the encoding of the int obj in the form its range selects
IsNarrowest(obj, out) ==
    /\ ~PackRaised(out)
    /\ Len(out) = NarrowestForm(obj)[2]
    /\ NarrowestForm(obj)[1] # -1 => out[1] = NarrowestForm(obj)[1]
    /\ Decode(out) = obj

\* C13: for every int v with -2^63 <= v <= 2^64 - 1, msgpack_pack(v) succeeds
\* and returns the narrowest form that the value range of v selects.
C13_IntNarrowest ==
    (mp.pc = "packed" /\ mp.obj \in PackInts /\ InPackRange(mp.obj))
    => IsNarrowest(mp.obj, mp.out)

PackTypes == {"none", "bool", "int", "str", "bytes", "list", "tuple", "dict"}

RECURSIVE SubValues(_)
\* obj and every item, key and value nested in it at any depth
SubValues(obj) ==
    {obj} \cup
    (IF obj[1] \in {"list", "tuple"}
     THEN UNION {SubValues(obj[2][i]) : i \in 1..Len(obj[2])}
     ELSE IF obj[1] = "dict"
     THEN UNION {SubValues(obj[2][i][1]) \cup SubValues(obj[2][i][2]) :
                    i \in 1..Len(obj[2])}
     ELSE {})

\* every value in obj is of an accepted type
SupportedTypes(obj) == \A v \in SubValues(obj) : v[1] \in PackTypes

\* an accepted value: accepted types, ints in [-2^63, 2^64 - 1], and text
\* without surrogates
AcceptedValue(obj) ==
    \A v \in SubValues(obj) :
        /\ v[1] \in PackTypes
        /\ v[1] = "int" => InPackRange(v)
        /\ v[1] = "str" => \A i \in 1..Len(v[2]) :
                              ~(v[2][i] >= 55296 /\ v[2][i] <= 57343)

\* a tuple read back is the list of its items
AsDecoded(obj) == IF obj[1] = "tuple" THEN PyList(obj[2]) ELSE obj

\* C14: for every accepted value v msgpack_pack(v) is bytes that the
\* reference decoder reads back as v, and no other accepted value has the
\* same encoding.
C14_RoundTrip ==
    /\ (mp.pc = "packed" /\ mp.impl = "base" /\ AcceptedValue(mp.obj))
       => ~PackRaised(mp.out)
    /\ (mp.pc = "decoded" /\ mp.impl = "base" /\ AcceptedValue(mp.obj))
       => /\ mp.dec = AsDecoded(mp.obj)
          /\ \A other \in PackValues :
                (AcceptedValue(other) /\ AsDecoded(other) # AsDecoded(mp.obj))
                => msgpack_pack(other) # mp.out

RECURSIVE ConcatPairs(_, _)
\* the encodings key1, value1, key2, value2, ... of the pairs from i on
ConcatPairs(pairs, i) ==
    IF i > Len(pairs) THEN <<>>
    ELSE msgpack_pack(pairs[i][1]) \o msgpack_pack(pairs[i][2])
         \o ConcatPairs(pairs, i + 1)

\* the entry count that a map header carries, and the header's length
MapCount(out) ==
    IF out[1] >= 128 /\ out[1] <= 143 THEN <<out[1] - 128, 1>>
    ELSE IF out[1] = 222 THEN <<256 * out[2] + out[3], 3>>
    ELSE <<-1, 0>>

\* out is a map header with the count of d, then the pairs of d in order
MapLayout(d, out) ==
    /\ ~PackRaised(out)
    /\ MapCount(out)[1] = Len(d[2])
    /\ SubSeq(out, MapCount(out)[2] + 1, Len(out)) = ConcatPairs(d[2], 1)

\* C15: for every dict msgpack_pack emits the map header with the entry
\* count and then key1, value1, key2, value2, ... in insertion order, at
\* every nesting level; packing the same value twice gives equal bytes.
C15_DictOrder ==
    /\ (mp.pc = "packed" /\ mp.impl = "base" /\ mp.obj[1] = "dict"
        /\ AcceptedValue(mp.obj))
       => /\ MapLayout(mp.obj, mp.out)
          /\ \A d \in SubValues(mp.obj) :
                d[1] = "dict" => MapLayout(d, msgpack_pack(d))
    /\ (mp.pc = "repacked" /\ mp.obj[1] = "dict" /\ AcceptedValue(mp.obj))
       => mp.again = mp.out

\* C16: msgpack_pack ends in the "unsupported type" error whenever the value
\* or anything nested in it is of a type outside the accepted set, and true
\* and false are written as C3 and C2.
C16_UnsupportedRaises ==
    /\ (mp.pc = "packed" /\ mp.impl = "base" /\ ~SupportedTypes(mp.obj))
       => mp.out = TypeErrorRaised
    /\ (mp.pc = "packed" /\ mp.impl = "base" /\ mp.obj = PyBool(TRUE))
       => mp.out = <<195>>
    /\ (mp.pc = "packed" /\ mp.impl = "base" /\ mp.obj = PyBool(FALSE))
       => mp.out = <<194>>

\* ---------------------------------------------------------------------------
\* EIP-712 typed-data hashing (signing/eip712.pyx).
\* A str is the sequence of its code points; a dict is the sequence of its
\* <<key, value>> pairs in insertion order; a field {"name": .., "type": ..}
\* is a record, since the code reads it by key only.
\* ---------------------------------------------------------------------------

\* ord(c) of a letter or digit, and of the punctuation of type strings
Ord(c) ==
    IF \E i \in 1..62 : B64Alphabet[i] = c
    THEN LET i == CHOOSE i \in 1..62 : B64Alphabet[i] = c
         IN  IF i <= 26 THEN 64 + i ELSE IF i <= 52 THEN 70 + i ELSE i - 5
    ELSE CASE c = " " -> 32 [] c = "(" -> 40 [] c = ")" -> 41
           [] c = "," -> 44 [] c = "[" -> 91 [] c = "]" -> 93

\* the str of the characters cs
U(cs) == [i \in 1..Len(cs) |-> Ord(cs[i])] \o <<>>

RECURSIVE Dec(_)
\* str(n) of a non-negative int
Dec(n) == IF n < 10 THEN <<48 + n>> ELSE Append(Dec(n \div 10), 48 + (n % 10))

T_string == U(<<"s", "t", "r", "i", "n", "g">>)
T_bytes == U(<<"b", "y", "t", "e", "s">>)
T_bool == U(<<"b", "o", "o", "l">>)
T_address == U(<<"a", "d", "d", "r", "e", "s", "s">>)
T_uint == U(<<"u", "i", "n", "t">>)
T_int == U(<<"i", "n", "t">>)

_EIP712_SOLIDITY_TYPES ==
    {T_string, T_bytes, T_bool, T_address}
    \cup {T_uint \o Dec(8 * k) : k \in 1..32}
    \cup {T_int \o Dec(8 * k) : k \in 1..32}
    \cup {T_bytes \o Dec(k) : k \in 1..32}

\* the keys of a dict, d[k], and d.get(k)
DictKeys(d) == {d[i][1] : i \in 1..Len(d)}
DictItem(d, k) == d[CHOOSE i \in 1..Len(d) : d[i][1] = k][2]
DictGet(d, k) == IF k \in DictKeys(d) THEN DictItem(d, k) ELSE PyNone

\* s.startswith(prefix)
StartsWith(s, prefix) ==
    Len(s) >= Len(prefix) /\ SubSeq(s, 1, Len(prefix)) = prefix

RECURSIVE strip(_)
\* s.strip(): blanks removed at both ends
strip(s) ==
    IF s = <<>> THEN s
    ELSE IF s[1] = 32 THEN strip(Tail(s))
    ELSE IF s[Len(s)] = 32 THEN strip(SubSeq(s, 1, Len(s) - 1))
    ELSE s

\* type_.split("[")[0].strip()
CoreType(type_) ==
    LET cut == {i \in 1..Len(type_) : type_[i] = 91}
    IN  strip(IF cut = {} THEN type_
              ELSE SubSeq(type_, 1, (CHOOSE i \in cut : \A j \in cut : i <= j) - 1))

\* the outcome of a raising call that returns a set, and one that returns a str
DepsRaised == {<<-1>>}
StrRaised == <<-1>>

\* a < b on str (code point by code point, a proper prefix first)
StrLT(a, b) ==
    \/ Len(a) < Len(b) /\ SubSeq(b, 1, Len(a)) = a
    \/ \E i \in 1..Len(a) :
          /\ i <= Len(b)
          /\ a[i] < b[i]
          /\ \A j \in 1..(i - 1) : a[j] = b[j]

\* variant: the elements of deps in descending order
sorted_set_order(deps) ==
    [i \in 1..Cardinality(deps) |->
        CHOOSE x \in deps : Cardinality({y \in deps : StrLT(x, y)}) = i - 1] \o <<>>

\* sorted(deps) of a set of str
sorted(deps) ==
    [i \in 1..Cardinality(deps) |->
        CHOOSE x \in deps : Cardinality({y \in deps : StrLT(y, x)}) = i - 1] \o <<>>

RECURSIVE _eip712_find_type_dependencies(_, _, _)
RECURSIVE FindInFields(_, _, _, _)
\* _eip712_find_type_dependencies; results is the one set every call adds to
_eip712_find_type_dependencies(type_name, types, results) ==
    LET Go(tn) ==
            IF tn \in _EIP712_SOLIDITY_TYPES \/ tn \in results THEN results
            ELSE IF tn \notin DictKeys(types) THEN DepsRaised
            ELSE FindInFields(DictItem(types, tn), 1, types, results \cup {tn})
    IN  Go(CoreType(type_name))

\* for field in types[type_name]: the recursive calls from field i on
FindInFields(fields, i, types, results) ==
    IF results = DepsRaised \/ i > Len(fields) THEN results
    ELSE FindInFields(fields, i + 1, types,
             _eip712_find_type_dependencies(fields[i].type, types, results))

RECURSIVE JoinParts(_, _)
\* ",".join(f"{f['type']} {f['name']}" for f in fields), from field i on
JoinParts(fields, i) ==
    IF i > Len(fields) THEN <<>>
    ELSE (IF i > 1 THEN <<44>> ELSE <<>>)
         \o fields[i].type \o <<32>> \o fields[i].name
         \o JoinParts(fields, i + 1)

\* f"{tn}({','.join(parts)})"
TypeMember(tn, types) ==
    tn \o <<40>> \o JoinParts(DictItem(types, tn), 1) \o <<41>>

RECURSIVE JoinMembers(_, _, _)
\* "".join(out) of the loop over deps; types[tn] raises KeyError
JoinMembers(deps, i, types) ==
    IF i > Len(deps) THEN <<>>
    ELSE IF deps[i] \notin DictKeys(types) THEN StrRaised
    ELSE LET Go(rest) ==
                 IF rest = StrRaised THEN StrRaised
                 ELSE TypeMember(deps[i], types) \o rest
         IN  Go(JoinMembers(deps, i + 1, types))

\* [type_name] + sorted(deps - {type_name}) joined
EncodeTypeOf(type_name, types, deps) ==
    IF deps = DepsRaised THEN StrRaised
    ELSE JoinMembers(<<type_name>> \o sorted(deps \ {type_name}), 1, types)

_eip712_encode_type(type_name, types) ==
    EncodeTypeOf(type_name, types,
                 _eip712_find_type_dependencies(type_name, types, {}))

_eip712_hash_type(type_name, types) ==
    LET Go(t) == IF t = StrRaised THEN BytesRaised ELSE keccak256(EncodeUtf8(t))
    IN  Go(_eip712_encode_type(type_name, types))

RECURSIVE StripZeros(_)
\* a magnitude without its leading zero bytes
StripZeros(mag) ==
    IF mag # <<>> /\ mag[1] = 0 THEN StripZeros(Tail(mag)) ELSE mag

\* if v < 0 and type_.startswith("uint"): v = 0, then
\* v.to_bytes(32, "big", signed=...) of an int held as sign and magnitude;
\* to_bytes raises OverflowError when v does not fit
IntTo32(neg, mag, signed) ==
    LET Go(m) ==
            IF neg = 1 /\ ~signed THEN Zeros(32)
            ELSE IF Len(m) > 32 THEN BytesRaised
            ELSE IF ~signed THEN Zeros(32 - Len(m)) \o m
            ELSE IF Len(m) < 32 \/ m[1] < 128
            THEN IF neg = 0 THEN Zeros(32 - Len(m)) \o m
                 ELSE TwosComplement(Zeros(32 - Len(m)) \o m, 32)
            ELSE IF neg = 1 /\ m = <<128>> \o Zeros(31) THEN m
            ELSE BytesRaised
    IN  Go(StripZeros(mag))

RECURSIVE _eip712_encode_field(_, _, _, _)
RECURSIVE _eip712_hash_struct(_, _, _)
RECURSIVE EncodeFields(_, _, _, _, _)
\* _eip712_encode_field for the values the callers of the model pass: a dict
\* or None for a struct, str for string, bytes or str (no "0x") for bytes and
\* bytesN, int for intN and uintN, bytes for address, bool for bool
_eip712_encode_field(types, name, type_, value) ==
    IF CoreType(type_) \in DictKeys(types)
    THEN IF value = PyNone THEN Zeros(32)
         ELSE _eip712_hash_struct(CoreType(type_), types, value[2])
    ELSE IF type_ \in {T_string, T_bytes} /\ value = PyNone THEN Zeros(32)
    ELSE IF value = PyNone THEN BytesRaised
    ELSE IF type_ = T_bool
    THEN to_bytes_big(IF value = PyBool(TRUE) THEN 1 ELSE 0, 32)
    ELSE IF StartsWith(type_, T_bytes)
    THEN LET Go(b) ==
                 IF b = UnicodeErrorRaised THEN BytesRaised
                 ELSE IF type_ = T_bytes THEN keccak256(b)
                 ELSE SubSeq(b \o Zeros(32 - Len(b)), 1, 32)
         IN  Go(IF value[1] = "str" THEN EncodeUtf8(value[2]) ELSE value[2])
    ELSE IF type_ = T_string
    THEN LET Go(b) == IF b = UnicodeErrorRaised THEN BytesRaised
                      ELSE keccak256(b)
         IN  Go(IF value[1] = "str" THEN EncodeUtf8(value[2]) ELSE value[2])
    ELSE IF StartsWith(type_, T_int) \/ StartsWith(type_, T_uint)
    THEN IntTo32(value[2][1], IntMag(value), StartsWith(type_, T_int))
    ELSE IF type_ = T_address
    THEN LET Go(b) == Zeros(32 - Len(b)) \o b
         IN  Go(SubSeq(value[2], 1, IF Len(value[2]) < 20 THEN Len(value[2]) ELSE 20))
    ELSE BytesRaised

\* _eip712_encode_data: for field in types[type_name], from field i on
EncodeFields(fields, i, types, data, out) ==
    IF out = BytesRaised \/ i > Len(fields) THEN out
    ELSE LET Go(enc) ==
                 IF enc = BytesRaised THEN BytesRaised
                 ELSE EncodeFields(fields, i + 1, types, data, out \o enc)
         IN  Go(_eip712_encode_field(types, fields[i].name, fields[i].type,
                                     DictGet(data, fields[i].name)))

_eip712_encode_data(type_name, types, data) ==
    LET Go(out) ==
            IF out = BytesRaised THEN BytesRaised
            ELSE EncodeFields(DictItem(types, type_name), 1, types, data, out)
    IN  Go(_eip712_hash_type(type_name, types))

_eip712_hash_struct(type_name, types, data) ==
    LET Go(enc) == IF enc = BytesRaised THEN BytesRaised ELSE keccak256(enc)
    IN  Go(_eip712_encode_data(type_name, types, data))

T_EIP712Domain ==
    U(<<"E", "I", "P", "7", "1", "2", "D", "o", "m", "a", "i", "n">>)
K_name == U(<<"n", "a", "m", "e">>)
K_version == U(<<"v", "e", "r", "s", "i", "o", "n">>)
K_chainId == U(<<"c", "h", "a", "i", "n", "I", "d">>)
K_verifyingContract ==
    U(<<"v", "e", "r", "i", "f", "y", "i", "n", "g",
        "C", "o", "n", "t", "r", "a", "c", "t">>)
K_salt == U(<<"s", "a", "l", "t">>)

eip712_domain_map ==
    << <<K_name, [name |-> K_name, type |-> T_string]>>,
       <<K_version, [name |-> K_version, type |-> T_string]>>,
       <<K_chainId, [name |-> K_chainId, type |-> T_uint \o Dec(256)]>>,
       <<K_verifyingContract,
         [name |-> K_verifyingContract, type |-> T_address]>>,
       <<K_salt, [name |-> K_salt, type |-> T_bytes \o Dec(32)]>> >>

\* variant: every key of domain_data is accepted
DomainKeysValid_any(domain_data) ==
    \A i \in 1..Len(domain_data) : domain_data[i][1] \in DictKeys(domain_data)

\* for k in domain_data: if k not in eip712_domain_map: raise
DomainKeysValid(domain_data) ==
    \A i \in 1..Len(domain_data) : domain_data[i][1] \in DictKeys(eip712_domain_map)

RECURSIVE SelectFields(_, _, _)
\* [m[k] for k in m if k in keys], from entry i of m on
SelectFields(m, i, keys) ==
    IF i > Len(m) THEN <<>>
    ELSE (IF m[i][1] \in keys THEN <<m[i][2]>> ELSE <<>>)
         \o SelectFields(m, i + 1, keys)

\* variant: the fields of EIP712Domain in the order of the caller's dict
DomainFields_caller_order(domain_data) ==
    [i \in 1..Len(domain_data) |->
        DictItem(eip712_domain_map, domain_data[i][1])] \o <<>>

\* [eip712_domain_map[k] for k in eip712_domain_map if k in domain_data]
DomainFields(domain_data) ==
    SelectFields(eip712_domain_map, 1, DictKeys(domain_data))

_eip712_hash_domain_typed(domain_data) ==
    IF ~DomainKeysValid(domain_data) THEN BytesRaised
    ELSE _eip712_hash_struct(T_EIP712Domain,
             << <<T_EIP712Domain, DomainFields(domain_data)>> >>, domain_data)

\* eip712_hash_full_message; full_message is a record of its four items
eip712_hash_full_message(full_message) ==
    LET Go(domain_sep) ==
            IF domain_sep = BytesRaised THEN BytesRaised
            ELSE LET Fin(struct_hash) ==
                         IF struct_hash = BytesRaised THEN BytesRaised
                         ELSE keccak256(<<25, 1>> \o domain_sep \o struct_hash)
                 IN  Fin(_eip712_hash_struct(full_message.primaryType,
                             full_message.types, full_message.message))
    IN  Go(_eip712_hash_domain_typed(full_message.domain))

\* ---------------------------------------------------------------------------
\* EIP-712: the calls of eip712_hash_full_message, and the dependency search
\* of _eip712_find_type_dependencies taken one call and one loop step at a
\* time (stack is the chain of calls in progress, each a type name and the
\* position of its loop over the fields; log is the order of results.add).
\* ---------------------------------------------------------------------------

MaxDepth == 4

N_Mail == U(<<"M", "a", "i", "l">>)
N_Person == U(<<"P", "e", "r", "s", "o", "n">>)
N_Asset == U(<<"A", "s", "s", "e", "t">>)
F_from == U(<<"f", "r", "o", "m">>)
F_to == U(<<"t", "o">>)
F_contents == U(<<"c", "o", "n", "t", "e", "n", "t", "s">>)
F_wallet == U(<<"w", "a", "l", "l", "e", "t">>)
F_friend == U(<<"f", "r", "i", "e", "n", "d">>)
F_mail == U(<<"m", "a", "i", "l">>)
F_assets == U(<<"a", "s", "s", "e", "t", "s">>)
F_owner == U(<<"o", "w", "n", "e", "r">>)
F_id == U(<<"i", "d">>)
F_foo == U(<<"f", "o", "o">>)

Field(n, t) == [name |-> n, type |-> t]

PersonFields == <<Field(K_name, T_string), Field(F_wallet, T_address)>>

\* the registries: the Mail example, a self-reference, a cycle through three
\* types with an array field, a missing type, an unknown primitive
Types_mail ==
    << <<N_Person, PersonFields>>,
       <<N_Mail, <<Field(F_from, N_Person), Field(F_to, N_Person),
                   Field(F_contents, T_string)>> >> >>
Types_self ==
    << <<N_Person, <<Field(K_name, T_string), Field(F_friend, N_Person)>> >> >>
Types_cycle ==
    << <<N_Mail, <<Field(F_from, N_Person), Field(F_contents, T_string)>> >>,
       <<N_Person, <<Field(F_mail, N_Mail),
                     Field(F_assets, N_Asset \o U(<<"[", "]">>))>> >>,
       <<N_Asset, <<Field(F_owner, N_Person),
                    Field(F_id, T_uint \o Dec(256))>> >> >>
Types_missing ==
    << <<N_Mail, <<Field(F_contents, T_string), Field(F_from, N_Person)>> >> >>
Types_unknown ==
    << <<N_Mail, <<Field(F_id, T_uint \o Dec(7))>> >>,
       <<N_Person, PersonFields>> >>
EipRegistries ==
    {Types_mail, Types_self, Types_cycle, Types_missing, Types_unknown}

Address20 == [i \in 1..20 |-> 16 + i] \o <<>>

PersonData ==
    PyDict(<< <<K_name, PyStr(U(<<"B", "o", "b">>))>>,
              <<F_wallet, PyBytes(Address20)>> >>)

\* the struct data: one dict with a value for every field name in use
EipMessage ==
    << <<F_from, PersonData>>, <<F_to, PersonData>>,
       <<F_contents, PyStr(U(<<"H", "i">>))>>,
       <<K_name, PyStr(U(<<"A", "n", "n">>))>>,
       <<F_wallet, PyBytes(Address20)>>,
       <<F_friend, PersonData>>,
       <<F_owner, PersonData>>,
       <<F_id, PyInt(0, Mag(5))>> >>

Domain_full ==
    << <<K_salt, PyBytes(<<1, 2, 3>>)>>,
       <<K_chainId, PyInt(0, Mag(1))>>,
       <<K_name, PyStr(U(<<"E", "t", "h", "e", "r">>))>>,
       <<K_verifyingContract, PyBytes(Address20)>>,
       <<K_version, PyStr(U(<<"1">>))>> >>
Domain_min ==
    << <<K_name, PyStr(U(<<"E", "t", "h", "e", "r">>))>>,
       <<K_chainId, PyInt(0, Mag(1))>> >>
Domain_bad ==
    << <<K_name, PyStr(U(<<"E", "t", "h", "e", "r">>))>>,
       <<F_foo, PyInt(0, Mag(1))>> >>
EipDomains == {Domain_full, Domain_min, Domain_bad}

EipMessages ==
    [domain : EipDomains, types : EipRegistries,
     primaryType : {N_Mail, N_Person, N_Asset}, message : {EipMessage}]

EipInit ==
    /\ \E full_message \in EipMessages :
          ei = [pc |-> "start", msg |-> full_message, hash |-> <<>>,
                msg2 |-> full_message, hash2 |-> <<>>,
                arg |-> <<>>, results |-> {}, stack |-> <<>>, log |-> <<>>,
                enc |-> <<>>]
    /\ kc = Idle /\ sp = Idle /\ ed = Idle /\ bp = Idle /\ mp = Idle

\* eip712_hash_full_message(full_message)
EipHash ==
    /\ ei.pc = "start"
    /\ ei' = [ei EXCEPT !.pc = "hashed",
                        !.hash = eip712_hash_full_message(ei.msg)]
    /\ UNCHANGED <<kc, sp, ed, bp, mp>>

\* the same dict with its keys inserted in another order
Reorder(d, how) ==
    IF d = <<>> \/ how = "same" THEN d
    ELSE IF how = "rotate" THEN Tail(d) \o <<Head(d)>>
    ELSE [i \in 1..Len(d) |-> d[Len(d) + 1 - i]] \o <<>>

RECURSIVE ReorderData(_, _)
\* a struct data dict and the dicts nested in it, reordered
ReorderData(d, how) ==
    Reorder([i \in 1..Len(d) |->
                IF d[i][2][1] = "dict"
                THEN <<d[i][1], PyDict(ReorderData(d[i][2][2], how))>>
                ELSE d[i]] \o <<>>, how)

\* the caller builds the same message with the keys of its dicts in another
\* order
EipReorder ==
    /\ ei.pc = "hashed"
    /\ \E ht \in {"same", "rotate", "reverse"},
          hd \in {"rotate", "reverse"},
          hm \in {"rotate", "reverse"} :
          ei' = [ei EXCEPT !.pc = "reordered",
                           !.msg2 = [domain |-> Reorder(ei.msg.domain, hd),
                                     types |-> Reorder(ei.msg.types, ht),
                                     primaryType |-> ei.msg.primaryType,
                                     message |-> ReorderData(ei.msg.message, hm)]]
    /\ UNCHANGED <<kc, sp, ed, bp, mp>>

\* eip712_hash_full_message of the reordered message
EipHashAgain ==
    /\ ei.pc = "reordered"
    /\ ei' = [ei EXCEPT !.pc = "rehashed",
                        !.hash2 = eip712_hash_full_message(ei.msg2)]
    /\ UNCHANGED <<kc, sp, ed, bp, mp>>

\* _eip712_encode_type calls _eip712_find_type_dependencies(type_name, types)
FindStart ==
    /\ ei.pc = "start"
    /\ ei' = [ei EXCEPT !.pc = "call", !.arg = ei.msg.primaryType]
    /\ UNCHANGED <<kc, sp, ed, bp, mp>>

\* variant: no type is ever found in results
Visited_never(tn, results) == tn \in results /\ tn \notin results

\* type_name in results
Visited(tn, results) == tn \in results

\* where a call that has returned leaves control
AfterReturn(stack) == IF stack = <<>> THEN "found" ELSE "loop"

\* one call of _eip712_find_type_dependencies up to its loop
FindCall ==
    /\ ei.pc = "call"
    /\ LET tn == CoreType(ei.arg)
       IN  IF tn \in _EIP712_SOLIDITY_TYPES \/ Visited(tn, ei.results)
           THEN ei' = [ei EXCEPT !.pc = AfterReturn(ei.stack)]
           ELSE IF tn \notin DictKeys(ei.msg.types)
           THEN ei' = [ei EXCEPT !.pc = "raised"]
           ELSE /\ Len(ei.stack) < MaxDepth
                /\ ei' = [ei EXCEPT !.pc = "loop",
                                    !.results = ei.results \cup {tn},
                                    !.log = Append(ei.log, tn),
                                    !.stack = Append(ei.stack, <<tn, 1>>)]
    /\ UNCHANGED <<kc, sp, ed, bp, mp>>

\* one step of for field in types[type_name]: the next call, or the return
FindLoop ==
    /\ ei.pc = "loop"
    /\ LET top == ei.stack[Len(ei.stack)]
           fields == DictItem(ei.msg.types, top[1])
           rest == SubSeq(ei.stack, 1, Len(ei.stack) - 1)
       IN  IF top[2] > Len(fields)
           THEN ei' = [ei EXCEPT !.pc = AfterReturn(rest), !.stack = rest]
           ELSE ei' = [ei EXCEPT !.pc = "call",
                                 !.arg = fields[top[2]].type,
                                 !.stack = Append(rest, <<top[1], top[2] + 1>>)]
    /\ UNCHANGED <<kc, sp, ed, bp, mp>>

\* the rest of _eip712_encode_type on the set the search returned
EipEncodeType ==
    /\ ei.pc = "found"
    /\ ei' = [ei EXCEPT !.pc = "encoded",
                        !.enc = EncodeTypeOf(ei.msg.primaryType, ei.msg.types,
                                             ei.results)]
    /\ UNCHANGED <<kc, sp, ed, bp, mp>>

EipNext ==
    \/ EipHash
    \/ EipReorder
    \/ EipHashAgain
    \/ FindStart
    \/ FindCall
    \/ FindLoop
    \/ EipEncodeType

SpecEip == EipInit /\ [][EipNext]_vars

\* the search alone; every call and every loop step that can be taken is
\* taken
FindNext ==
    \/ FindStart
    \/ FindCall
    \/ FindLoop
    \/ EipEncodeType

SpecFind == EipInit /\ [][FindNext]_vars /\ WF_vars(FindNext)

\* the field types, array suffix stripped, of the struct types among R
FieldTypes(types, R) ==
    UNION {{CoreType(DictItem(types, t)[i].type) :
               i \in 1..Len(DictItem(types, t))} : t \in R \cap DictKeys(types)}

RECURSIVE TypeClosure(_, _, _)
TypeClosure(types, R, n) ==
    IF n = 0 THEN R
    ELSE TypeClosure(types, R \cup FieldTypes(types, R), n - 1)

\* the type names reachable from S through field types
TypesReached(types, S) == TypeClosure(types, {S}, Len(types) + 1)

\* the struct types among them
StructsReached(types, S) == TypesReached(types, S) \ _EIP712_SOLIDITY_TYPES

\* every reachable type is a recognised primitive or a key of types
WellDefined(types, S) ==
    \A t \in TypesReached(types, S) :
        t \in _EIP712_SOLIDITY_TYPES \/ t \in DictKeys(types)

\* the ways to list the names of X each once in ascending order
AscendingLists(X) ==
    {q \in [1..Cardinality(X) -> X] :
        \A i, j \in 1..Cardinality(X) : i < j => StrLT(q[i], q[j])}

RECURSIVE MembersOf(_, _, _)
\* the member lists of the types q[i], q[i+1], ... one after the other
MembersOf(q, i, types) ==
    IF i > Len(q) THEN <<>>
    ELSE TypeMember(q[i], types) \o MembersOf(q, i + 1, types)

\* C17: the encodeType string of S is the member list of S, then that of
\* every other struct type reachable from S (array suffix stripped), each
\* once, in ascending order of name; primitive types add nothing.
C17_EncodeTypeOrder ==
    (ei.pc = "encoded" /\ WellDefined(ei.msg.types, ei.msg.primaryType))
    => \E q \in AscendingLists(StructsReached(ei.msg.types, ei.msg.primaryType)
                               \ {ei.msg.primaryType}) :
          ei.enc = TypeMember(ei.msg.primaryType, ei.msg.types)
                   \o MembersOf(q, 1, ei.msg.types)

C17_Witness ==
    /\ ei.pc = "encoded"
    /\ ei.msg.types = Types_cycle
    /\ ei.msg.primaryType = N_Mail
    /\ ei.log = <<N_Mail, N_Person, N_Asset>>
    /\ ei.enc # StrRaised

\* C18: the hash of a message does not change when the keys of its dicts
\* (the types dict, the struct data dicts, the domain dict) are inserted in
\* another order.
C18_KeyOrderInvariant ==
    ei.pc = "rehashed" => ei.hash2 = ei.hash

C18_Witness ==
    /\ ei.pc = "rehashed"
    /\ ei.msg.domain = Domain_full
    /\ ei.msg2.domain # ei.msg.domain
    /\ ei.msg2.types # ei.msg.types
    /\ ei.msg2.message # ei.msg.message
    /\ ei.hash # BytesRaised
    /\ Len(ei.hash) = 32

\* C19: eip712_hash_full_message raises when the domain dict has a key other
\* than name, version, chainId, verifyingContract, salt, and when the primary
\* type or a reachable field type is neither a recognised primitive nor a key
\* of types.
C19_BadInputRaises ==
    (/\ ei.pc = "hashed"
     /\ \/ ~(DictKeys(ei.msg.domain) \subseteq
               {K_name, K_version, K_chainId, K_verifyingContract, K_salt})
        \/ ~WellDefined(ei.msg.types, ei.msg.primaryType))
    => ei.hash = BytesRaised

C19_Witness ==
    /\ ei.pc = "hashed"
    /\ ei.msg.domain = Domain_bad
    /\ WellDefined(ei.msg.types, ei.msg.primaryType)
    /\ ei.hash = BytesRaised

\* the number of places of s where sub starts
Occurrences(sub, s) ==
    Cardinality({i \in 1..(Len(s) - Len(sub) + 1) :
                    SubSeq(s, i, i + Len(sub) - 1) = sub})

\* no type is expanded twice
ExpandedOnce ==
    \A i, j \in 1..Len(ei.log) : ei.log[i] = ei.log[j] => i = j

\* the string starts with the primary type and has one member list for each
\* struct type reached
ListedOnce ==
    ei.pc = "encoded"
    => /\ StartsWith(ei.enc, ei.msg.primaryType \o <<40>>)
       /\ Occurrences(<<40>>, ei.enc)
             = Cardinality(StructsReached(ei.msg.types, ei.msg.primaryType))
       /\ \A t \in StructsReached(ei.msg.types, ei.msg.primaryType) :
             Occurrences(t \o <<40>>, ei.enc) = 1

\* C20: the dependency search ends for every registry, cyclic ones included,
\* expands each struct type at most once, and the encodeType string lists the
\* primary type first and every other type of the cycle once.
C20_SearchTerminates ==
    /\ [](ExpandedOnce /\ ListedOnce)
    /\ (ei.pc = "call") ~> (ei.pc \in {"found", "raised"})

C20_Witness ==
    /\ ei.pc = "encoded"
    /\ ei.msg.types = Types_cycle
    /\ ei.msg.primaryType = N_Person
    /\ ei.log = <<N_Person, N_Mail, N_Asset>>
    /\ Occurrences(N_Person \o <<40>>, ei.enc) = 1

\* ---------------------------------------------------------------------------
\* EIP-712: _eip712_encode_field on one integer field.
\* ---------------------------------------------------------------------------

\* magnitudes at the edges of 8, 64, 255 and 256 bits
FieldMags ==
    {<<0>>, <<1>>, <<127>>, <<128>>, <<255>>, <<1, 0>>,
     [i \in 1..8 |-> 255] \o <<>>, <<1>> \o Zeros(8),
     <<127>> \o ([i \in 1..31 |-> 255] \o <<>>), <<128>> \o Zeros(31),
     <<128>> \o Zeros(30) \o <<1>>,
     [i \in 1..32 |-> 255] \o <<>>, <<1>> \o Zeros(32),
     <<1>> \o Zeros(31) \o <<1>>}

FieldInts ==
    {PyInt(0, m) : m \in FieldMags} \cup {PyInt(1, m) : m \in FieldMags \ {<<0>>}}

FieldTypesIn ==
    {T_uint \o Dec(8), T_uint \o Dec(64), T_uint \o Dec(256),
     T_int \o Dec(8), T_int \o Dec(256)}

FieldInit ==
    /\ \E t \in FieldTypesIn, v \in FieldInts :
          ei = [pc |-> "field", type_ |-> t, value |-> v, out |-> <<>>]
    /\ kc = Idle /\ sp = Idle /\ ed = Idle /\ bp = Idle /\ mp = Idle

\* _eip712_encode_field(types, name, type_, value) on a field that is no
\* struct
FieldEncode ==
    /\ ei.pc = "field"
    /\ ei' = [ei EXCEPT !.pc = "returned",
                        !.out = _eip712_encode_field(<<>>, F_id, ei.type_,
                                                     ei.value)]
    /\ UNCHANGED <<kc, sp, ed, bp, mp>>

FieldNext ==
    \/ FieldEncode

SpecField == FieldInit /\ [][FieldNext]_vars

\* C21: for a uintN field, the 32 bytes returned are the supplied value as an
\* unsigned big-endian integer, and a negative value or one >= 2^256 ends in
\* an error.
C21_UintExact ==
    (ei.pc = "returned" /\ StartsWith(ei.type_, T_uint))
    => IF IntNeg(ei.value) \/ Len(StripZeros(IntMag(ei.value))) > 32
       THEN ei.out = BytesRaised
       ELSE /\ Len(ei.out) = 32
            /\ StripZeros(ei.out) = StripZeros(IntMag(ei.value))

\* ---------------------------------------------------------------------------
\* secp256k1: _point_add on every pair of operands, and privkey_to_pubkey.
\* ---------------------------------------------------------------------------

\* the points of y^2 = x^3 + 7 (mod P), and the identity as the code holds it
CurvePoints ==
    {pt \in (0..(secp_P - 1)) \X (0..(secp_P - 1)) :
        (pt[2] * pt[2]) % secp_P = (pt[1] * pt[1] * pt[1] + 7) % secp_P}
Identity == <<0, 0>>

PointInit ==
    /\ \/ \E p \in CurvePoints \cup {Identity},
             q \in CurvePoints \cup {Identity} :
             sp = [pc |-> "operands", p |-> p, q |-> q, out |-> <<>>]
       \/ \E privkey \in PrivKeys :
             sp = [pc |-> "key", privkey |-> privkey, out |-> <<>>]
    /\ kc = Idle /\ ed = Idle /\ bp = Idle /\ mp = Idle /\ ei = Idle

\* _point_add(px, py, qx, qy)
PointAdd ==
    /\ sp.pc = "operands"
    /\ sp' = [sp EXCEPT !.pc = "added",
                        !.out = secp_point_add(sp.p[1], sp.p[2],
                                               sp.q[1], sp.q[2])]
    /\ UNCHANGED <<kc, ed, bp, mp, ei>>

\* privkey_to_pubkey(privkey)
PointPubkey ==
    /\ sp.pc = "key"
    /\ sp' = [sp EXCEPT !.pc = "pubkey", !.out = privkey_to_pubkey(sp.privkey)]
    /\ UNCHANGED <<kc, ed, bp, mp, ei>>

PointNext ==
    \/ PointAdd
    \/ PointPubkey

SpecPoint == PointInit /\ [][PointNext]_vars

\* C22: for 0 < d < N privkey_to_pubkey returns 04 || X || Y with (X, Y) on
\* the curve and not the identity, and _point_add of two operands that are
\* curve points or the identity is a curve point or the identity: the
\* identity exactly when one operand is the negative of the other.
C22_PubkeyOnCurve ==
    /\ (/\ sp.pc = "pubkey"
        /\ Len(sp.privkey) = 32
        /\ from_bytes_big(sp.privkey) > 0
        /\ from_bytes_big(sp.privkey) < secp_N)
       => /\ Len(sp.out) = 65
          /\ sp.out[1] = 4
          /\ <<from_bytes_big(SubSeq(sp.out, 2, 33)),
               from_bytes_big(SubSeq(sp.out, 34, 65))>> \in CurvePoints
    /\ sp.pc = "added"
       => /\ sp.out \in CurvePoints \cup {Identity}
          /\ (sp.p \in CurvePoints /\ sp.q \in CurvePoints)
             => (sp.out = Identity
                 <=> (sp.q[1] = sp.p[1]
                      /\ sp.q[2] = (secp_P - sp.p[2]) % secp_P))

C22_Witness ==
    /\ sp.pc = "pubkey"
    /\ from_bytes_big(sp.privkey) = secp_N - 1
    /\ Len(sp.out) = 65
    /\ from_bytes_big(SubSeq(sp.out, 2, 33)) = secp_Gx
    /\ from_bytes_big(SubSeq(sp.out, 34, 65)) = secp_P - secp_Gy

\* ---------------------------------------------------------------------------
\* Concurrent invocations of keccak256 (hashes/keccak.pxd): each thread runs
\* the optimized function on its own input, one loop iteration, one fill of
\* temp or one absorption at a time, in any interleaving.  th[t] holds the
\* locals of the invocation of thread t, temp the scratch buffers, module the
\* module-level tables.
\* ---------------------------------------------------------------------------

Threads == {1, 2}

\* variant: temp is one module-level buffer
TempOf_module(t) == 0

\* cdef uint8_t temp[136] is a local of the invocation of thread t
TempOf(t) == t

ConcInputs == {DataOf(0, 0), DataOf(3, 7), DataOf(135, 0), DataOf(136, 0),
               DataOf(139, 97)}

ConcInit ==
    /\ \E d \in [Threads -> ConcInputs] :
          kc = [th |-> [t \in Threads |->
                          [pc |-> "start", data |-> d[t], block_start |-> 0,
                           state |-> ZeroState, k |-> 1, out |-> <<>>]],
                temp |-> [o \in 0..2 |-> <<>>],
                module |-> <<_RC, _ROT, ROT>>]
    /\ sp = Idle /\ ed = Idle /\ bp = Idle /\ mp = Idle /\ ei = Idle

\* one iteration of while block_start + RATE_BYTES <= data_len
ConcFull(t) ==
    LET me == kc.th[t]
    IN  /\ me.pc = "start"
        /\ me.block_start + RATE_BYTES <= Len(me.data)
        /\ kc' = [kc EXCEPT
                    !.th[t].state =
                        AbsorbFlat(me.state, LoadBlock(me.data, me.block_start)),
                    !.th[t].block_start = me.block_start + RATE_BYTES]
        /\ UNCHANGED <<sp, ed, bp, mp, ei>>

\* the padding branch: memset / memcpy / the pad bytes written to temp for
\* the next absorption, or no absorption left
ConcFill(t) ==
    LET me == kc.th[t]
        temps == OptPadBlocks(me.data, me.block_start)
    IN  /\ me.pc = "start"
        /\ me.block_start + RATE_BYTES > Len(me.data)
        /\ IF me.k > Len(temps)
           THEN kc' = [kc EXCEPT !.th[t].pc = "squeeze"]
           ELSE kc' = [kc EXCEPT !.th[t].pc = "filled",
                                 !.temp[TempOf(t)] = temps[me.k]]
        /\ UNCHANGED <<sp, ed, bp, mp, ei>>

\* state ^= load64_le(temp + i * 8) for the 17 lanes, then keccak_f1600
ConcAbsorb(t) ==
    LET me == kc.th[t]
    IN  /\ me.pc = "filled"
        /\ kc' = [kc EXCEPT
                    !.th[t].pc = "start",
                    !.th[t].k = me.k + 1,
                    !.th[t].state =
                        AbsorbFlat(me.state, LoadBlock(kc.temp[TempOf(t)], 0))]
        /\ UNCHANGED <<sp, ed, bp, mp, ei>>

\* the squeeze and the return
ConcOut(t) ==
    LET me == kc.th[t]
    IN  /\ me.pc = "squeeze"
        /\ kc' = [kc EXCEPT !.th[t].pc = "done",
                            !.th[t].out = OptSqueeze(me.state)]
        /\ UNCHANGED <<sp, ed, bp, mp, ei>>

ConcNext ==
    \/ \E t \in Threads : ConcFull(t)
    \/ \E t \in Threads : ConcFill(t)
    \/ \E t \in Threads : ConcAbsorb(t)
    \/ \E t \in Threads : ConcOut(t)

SpecConc == ConcInit /\ [][ConcNext]_vars

\* C23: with the steps of concurrent invocations interleaved in any order,
\* each invocation returns what it returns when it runs alone, and the
\* module-level tables keep the values of module initialisation.
C23_Independent ==
    /\ \A t \in Threads :
          kc.th[t].pc = "done" => kc.th[t].out = keccak256_opt(kc.th[t].data)
    /\ kc.module = <<_RC, _ROT, ROT>>

C23_Witness ==
    /\ kc.th[1].pc = "done"
    /\ kc.th[2].pc = "done"
    /\ kc.th[1].data = DataOf(135, 0)
    /\ kc.th[2].data = DataOf(139, 97)
    /\ kc.temp[1] # kc.temp[2]
    /\ kc.th[1].out # kc.th[2].out

\* ---------------------------------------------------------------------------
\* secp256k1: _mod_inv taken one loop iteration at a time.
\* ---------------------------------------------------------------------------

MaxInvArg == 40
MaxModulus == 13

InvInit ==
    /\ \E a \in (0 - MaxInvArg)..MaxInvArg, n \in 2..MaxModulus :
          sp = [pc |-> "call", a |-> a, n |-> n, t |-> 0, r |-> 0,
                new_t |-> 0, new_r |-> 0, out |-> 0]
    /\ kc = Idle /\ ed = Idle /\ bp = Idle /\ mp = Idle /\ ei = Idle

\* if a < 0: a = (a % n + n) % n; t, r = 0, n; new_t, new_r = 1, a
InvEnter ==
    /\ sp.pc = "call"
    /\ sp' = [sp EXCEPT !.pc = "loop", !.t = 0, !.r = sp.n, !.new_t = 1,
                        !.new_r = IF sp.a < 0 THEN ((sp.a % sp.n) + sp.n) % sp.n
                                  ELSE sp.a]
    /\ UNCHANGED <<kc, ed, bp, mp, ei>>

\* one iteration of while new_r
InvStep ==
    /\ sp.pc = "loop"
    /\ sp.new_r # 0
    /\ LET q == sp.r \div sp.new_r
       IN  sp' = [sp EXCEPT !.t = sp.new_t, !.new_t = sp.t - q * sp.new_t,
                            !.r = sp.new_r, !.new_r = sp.r - q * sp.new_r]
    /\ UNCHANGED <<kc, ed, bp, mp, ei>>

\* variant: t is returned as the loop left it
InvLift_raw(t, n) == t

\* return t % n
InvLift(t, n) == t % n

\* the loop is over: raise ValueError("no inverse") or return
InvExit ==
    /\ sp.pc = "loop"
    /\ sp.new_r = 0
    /\ IF sp.r # 1 THEN sp' = [sp EXCEPT !.pc = "raised", !.out = Raised]
       ELSE sp' = [sp EXCEPT !.pc = "returned", !.out = InvLift(sp.t, sp.n)]
    /\ UNCHANGED <<kc, ed, bp, mp, ei>>

InvNext ==
    \/ InvEnter
    \/ InvStep
    \/ InvExit

\* every step that can be taken is taken
SpecInv == InvInit /\ [][InvNext]_vars /\ WF_vars(InvNext)

\* the greatest common divisor of x >= 0 and y > 0
GCD(x, y) ==
    CHOOSE d \in 1..y :
        /\ x % d = 0 /\ y % d = 0
        /\ \A e \in 1..y : (x % e = 0 /\ y % e = 0) => e <= d

\* C24: for n > 1 and every integer a, _mod_inv(a, n) ends; with
\* gcd(a mod n, n) = 1 it returns t with 0 <= t < n and a t = 1 (mod n), and
\* otherwise it ends in the error "no inverse".
C24_ModInverse ==
    /\ [](sp.pc \in {"returned", "raised"}
          => IF GCD(sp.a % sp.n, sp.n) = 1
             THEN /\ sp.pc = "returned"
                  /\ sp.out \in 0..(sp.n - 1)
                  /\ (sp.a * sp.out) % sp.n = 1
                  /\ sp.out = _mod_inv(sp.a, sp.n)
             ELSE sp.pc = "raised" /\ _mod_inv(sp.a, sp.n) = Raised)
    /\ (sp.pc = "call") ~> (sp.pc \in {"returned", "raised"})

C24_Witness ==
    /\ sp.pc = "returned"
    /\ sp.a < 0 - sp.n
    /\ sp.n = 12
    /\ sp.t < 0
    /\ sp.out = sp.t + sp.n

\* the text is the one bip137_sign_message returned: 88 characters ending in
\* the one "=" of 65 encoded bytes
BipAsSigned == Len(bp.signature_b64) = 88 /\ bp.signature_b64[88] = "="

\* C25: for a valid private key and any message, verifying the text that
\* signing returned against the signer's public key gives true; the text
\* decodes to a buffer that passes the length check and carries the header
\* that signing wrote.
C25_SignThenVerify ==
    /\ (bp.pc = "raised")
       => (from_bytes_big(bp.privkey) = 0 \/ from_bytes_big(bp.privkey) >= secp_N)
    /\ (bp.pc = "verified" /\ BipAsSigned)
       => /\ bp.dec_len >= 65
          /\ EVP_DecodeBlock(bp.signature_b64)[2][1] = bp.header
          /\ bp.ok

C25_Witness ==
    /\ bp.pc = "verified"
    /\ BipAsSigned
    /\ bp.message = <<2, 3>>
    /\ from_bytes_big(bp.privkey) = MaxBipKey
    /\ bp.ok

\* the blocks, as lanes, that the baseline absorbs: one for each block start
\* range(0, len(padded), rate_bytes) of the padded string
BaseBlocks(data) ==
    [k \in 1..Cardinality(BlockStarts(keccak_padded(data))) |->
        BlockLanes(keccak_padded(data), (k - 1) * rate_bytes)] \o <<>>

\* the blocks that the optimized code absorbs: the full blocks of data, then
\* the contents of temp
OptBlocks(data) ==
    LET full == Len(data) \div RATE_BYTES
        Go(temps) ==
            [k \in 1..(full + Len(temps)) |->
                IF k <= full THEN LoadBlock(data, (k - 1) * RATE_BYTES)
                ELSE LoadBlock(temps[k - full], 0)] \o <<>>
    IN  Go(OptPadBlocks(data, full * RATE_BYTES))

\* C26: the baseline and the optimized Keccak-256 absorb the same sequence of
\* 136-byte blocks for every input length and return the same digest.
C26_SameBlocksSameDigest ==
    kc.pc = "done"
    => /\ kc.absorbed = BaseBlocks(kc.data)
       /\ kc.absorbed = OptBlocks(kc.data)
       /\ kc.out = keccak256(kc.data)
       /\ kc.out = keccak256_opt(kc.data)

C26_Witness ==
    /\ kc.pc = "done"
    /\ kc.impl = "opt"
    /\ Len(kc.data) = 2 * RATE_BYTES - 1
    /\ Len(kc.absorbed) = 3
    /\ kc.out = keccak256(kc.data)


-----------------------------------------------------------------------------
(* The direct-write encoder (msgpack_pack_2.pyx), one step per call of a     *)
(* _pack_*_direct function.  buf is the bytearray, pos the cursor; todo holds *)
(* the values whose _msgpack_pack_obj call is still to come, in the order of *)
(* the recursion; log is the bytes stored so far, in the order of the        *)
(* stores, and last the cursor, the byte count and the buffer length of the  *)
(* latest store.  After the call returned or raised, the other three         *)
(* encoders pack the same value.                                             *)

\* bytearray(1024)
InitialSize == 1024
BigLen == 1600

NotRun == <<-9>>

\* instances of subclasses of the accepted types, alone and inside containers
SubclassValues ==
    {PySub(Py(1)), PySub(PyInt(1, Mag(100))), PySub(StrOf(1)),
     PySub(PyBytes(<<97>>)), PySub(PyList(<<Py(1)>>)),
     PySub(PyDict(<< <<StrOf(1), Py(1)>> >>)),
     PyList(<<Py(1), PySub(Py(2))>>),
     PyDict(<< <<StrOf(1), PySub(PyDict(<<>>))>> >>)}

\* values whose encoding ends at, just after and far after the initial size
LargeValues ==
    {StrOf(InitialSize - 3), StrOf(InitialSize - 2), StrOf(BigLen),
     PyBytes(Zeros(InitialSize + 6)),
     PyList(<<StrOf(1000), StrOf(18), Py(1), PyList(<<Py(200)>>),
              PyDict(<< <<StrOf(1), StrOf(600)>>, <<Py(70000), PyNone>> >>),
              PyTuple(<<PyBool(FALSE)>>)>>)}

DirectValues == PackValues \cup SubclassValues \cup LargeValues

\* PyByteArray_Resize(buf, n)
Resize(buf, n) ==
    IF n <= Len(buf) THEN SubSeq(buf, 1, n) ELSE buf \o Zeros(n - Len(buf))

\* ptr[0] = ..., ptr[1] = ..., memcpy(ptr + header_size, s_ptr, n) with
\* ptr = PyByteArray_AS_STRING(buf) + pos: the stores that fall inside buf
WriteAt(buf, pos, w) ==
    [i \in 1..Len(buf) |->
        IF i > pos /\ i <= pos + Len(w) THEN w[i - pos] ELSE buf[i]] \o <<>>

\* _ensure_space(buf, pos[0], needed), then the stores of w at ptr and
\* pos[0] += Len(w).  A store at or beyond len(buf) is undefined behaviour:
\* the run is marked "overrun" and not followed further.
DirectWrite(needed, w, todo) ==
    LET Go(b) == [mp EXCEPT !.buf = WriteAt(b, mp.pos, w),
                            !.pos = mp.pos + Len(w),
                            !.log = mp.log \o w,
                            !.last = <<mp.pos, Len(w), Len(b)>>,
                            !.todo = todo,
                            !.pc = IF mp.pos + Len(w) > Len(b)
                                   THEN "overrun" ELSE "pack"]
    IN  Go(Resize(mp.buf, _ensure_space(Len(mp.buf), mp.pos, needed)))

\* an exception leaves _msgpack_pack_obj and msgpack_pack
DirectRaise(err) == [mp EXCEPT !.pc = "raised", !.out = err]

\* header_size of _pack_str_direct and _pack_bytes_direct
StrHeaderSize(n) == IF n <= 31 THEN 1 ELSE IF n <= 65535 THEN 3 ELSE 5

\* header_size of _pack_list_direct and _pack_dict_direct
ListHeaderSize(n) == IF n <= 15 THEN 1 ELSE IF n <= 65535 THEN 3 ELSE 5

DirectInit ==
    /\ \E obj \in DirectValues :
          mp = [pc |-> "pack", obj |-> obj, todo |-> <<obj>>,
                buf |-> Zeros(InitialSize), pos |-> 0, log |-> <<>>,
                last |-> <<0, 0, InitialSize>>, out |-> NotRun,
                base |-> NotRun, v2 |-> NotRun, v3 |-> NotRun]
    /\ kc = Idle
    /\ sp = Idle
    /\ ed = Idle
    /\ bp = Idle
    /\ ei = Idle

\* the next _msgpack_pack_obj call is pending
Packing == mp.pc = "pack" /\ mp.todo # <<>>

\* if obj is None
DirectNone ==
    /\ Packing /\ Head(mp.todo)[1] = "none"
    /\ mp' = DirectWrite(1, <<192>>, Tail(mp.todo))
    /\ UNCHANGED <<kc, sp, ed, bp, ei>>

\* if _is_type(obj, BOOL_TYPE)
DirectBool ==
    /\ Packing /\ _is_type(Head(mp.todo), "bool")
    /\ mp' = DirectWrite(1, IF Head(mp.todo)[2][1] = 1 THEN <<195>>
                            ELSE <<194>>, Tail(mp.todo))
    /\ UNCHANGED <<kc, sp, ed, bp, ei>>

\* _pack_int_direct(obj, buf, pos)
DirectInt ==
    /\ Packing /\ _is_type(Head(mp.todo), "int")
    /\ LET neg == Head(mp.todo)[2][1]
           mag == Tail(Head(mp.todo)[2])
       IN  mp' = IF ~FitsInt64(neg, mag) THEN DirectRaise(OverflowErrorRaised)
                 ELSE DirectWrite(BytesNeeded(neg, mag),
                                  PackIntWrites(neg, mag), Tail(mp.todo))
    /\ UNCHANGED <<kc, sp, ed, bp, ei>>

\* _pack_str_direct(obj, buf, pos)
DirectStr ==
    /\ Packing /\ _is_type(Head(mp.todo), "str")
    /\ LET Go(s) ==
               IF s = UnicodeErrorRaised THEN DirectRaise(s)
               ELSE DirectWrite(StrHeaderSize(Len(s)) + Len(s),
                                StrHeader(Len(s)) \o s, Tail(mp.todo))
       IN  mp' = Go(EncodeUtf8(Head(mp.todo)[2]))
    /\ UNCHANGED <<kc, sp, ed, bp, ei>>

\* _pack_bytes_direct(obj, buf, pos)
DirectBytes ==
    /\ Packing /\ _is_type(Head(mp.todo), "bytes")
    /\ LET s == Head(mp.todo)[2]
       IN  mp' = DirectWrite(StrHeaderSize(Len(s)) + Len(s),
                             StrHeader(Len(s)) \o s, Tail(mp.todo))
    /\ UNCHANGED <<kc, sp, ed, bp, ei>>

\* _pack_list_direct(obj, buf, pos): the header; the items follow
DirectList ==
    /\ Packing
    /\ _is_type(Head(mp.todo), "list") \/ _is_type(Head(mp.todo), "tuple")
    /\ LET items == Head(mp.todo)[2]
       IN  mp' = DirectWrite(ListHeaderSize(Len(items)),
                             ListHeader(Len(items)), items \o Tail(mp.todo))
    /\ UNCHANGED <<kc, sp, ed, bp, ei>>

\* _pack_dict_direct(obj, buf, pos): the header; the keys and values follow
DirectDict ==
    /\ Packing /\ _is_type(Head(mp.todo), "dict")
    /\ LET pairs == Head(mp.todo)[2]
       IN  mp' = DirectWrite(ListHeaderSize(Len(pairs)),
                             DictHeader(Len(pairs)),
                             KeysAndValues(pairs) \o Tail(mp.todo))
    /\ UNCHANGED <<kc, sp, ed, bp, ei>>

\* raise TypeError(f"msgpack pack: unsupported type {type(obj)}")
DirectUnsupported ==
    /\ Packing
    /\ Head(mp.todo)[1] # "none"
    /\ \A typ \in PackTypes : ~_is_type(Head(mp.todo), typ)
    /\ mp' = DirectRaise(TypeErrorRaised)
    /\ UNCHANGED <<kc, sp, ed, bp, ei>>

\* PyByteArray_Resize(buf, pos); return bytes(buf)
DirectReturn ==
    /\ mp.pc = "pack" /\ mp.todo = <<>>
    /\ mp' = [mp EXCEPT !.pc = "returned", !.buf = Resize(mp.buf, mp.pos),
                        !.out = Resize(mp.buf, mp.pos)]
    /\ UNCHANGED <<kc, sp, ed, bp, ei>>

Ended == mp.pc \in {"returned", "raised"}

\* the baseline packs the same value
VariantBase ==
    /\ Ended /\ mp.base = NotRun
    /\ mp' = [mp EXCEPT !.base = msgpack_pack(mp.obj)]
    /\ UNCHANGED <<kc, sp, ed, bp, ei>>

\* v2 packs the same value
VariantV2 ==
    /\ Ended /\ mp.v2 = NotRun
    /\ mp' = [mp EXCEPT !.v2 = msgpack_pack_v2(mp.obj)]
    /\ UNCHANGED <<kc, sp, ed, bp, ei>>

\* v3 packs the same value
VariantV3 ==
    /\ Ended /\ mp.v3 = NotRun
    /\ mp' = [mp EXCEPT !.v3 = msgpack_pack_v3(mp.obj)]
    /\ UNCHANGED <<kc, sp, ed, bp, ei>>

DirectNext ==
    \/ DirectNone
    \/ DirectBool
    \/ DirectInt
    \/ DirectStr
    \/ DirectBytes
    \/ DirectList
    \/ DirectDict
    \/ DirectUnsupported
    \/ DirectReturn
    \/ VariantBase
    \/ VariantV2
    \/ VariantV3

SpecDirect == DirectInit /\ [][DirectNext]_vars

\* the four outcomes, once all four encoders have run
Outcomes == <<mp.base, mp.out, mp.v2, mp.v3>>
AllRun == Ended /\ \A i \in 1..4 : Outcomes[i] # NotRun

\* C27: the baseline, the direct-write encoder, v2 and v3 have the same
\* outcome for every input value, subclass instances included: they return
\* the same bytes or they all end in an error
C27_SameOutcome ==
    AllRun => \/ \A i \in 1..4 : PackRaised(Outcomes[i])
              \/ \A i \in 1..4 : Outcomes[i] = Outcomes[1]

\* C30: in the direct-write encoder every store falls below the length the
\* buffer has at that moment, the cursor never decreases, and the returned
\* bytes are the bytes stored, in order, up to the cursor
C30_WritesInBounds ==
    /\ [](/\ mp.pc # "overrun"
          /\ mp.last[1] + mp.last[2] <= mp.last[3]
          /\ mp.pos = Len(mp.log)
          /\ mp.pc = "pack" => mp.pos <= Len(mp.buf)
          /\ mp.pc = "returned" => mp.out = mp.log /\ Len(mp.out) = mp.pos)
    /\ [][mp'.pos >= mp.pos]_vars

\* a nested list was returned whose encoding outgrew the initial buffer, the
\* latest store having followed a growth
C30_Witness ==
    /\ mp.pc = "returned" /\ mp.obj[1] = "list"
    /\ mp.pos > InitialSize /\ mp.last[3] > InitialSize


-----------------------------------------------------------------------------
(* EIP-712, the legacy Agent message: the fixed type hashes and the hand-     *)
(* written encodings of eip712_hash_agent_message, beside the general        *)
(* encoder on the same domain and message.                                   *)

_EIP712_DOMAIN_TYPEHASH ==
    keccak256(U(<<"E", "I", "P", "7", "1", "2", "D", "o", "m", "a", "i", "n",
                  "(", "s", "t", "r", "i", "n", "g", " ", "n", "a", "m", "e",
                  ",", "s", "t", "r", "i", "n", "g", " ", "v", "e", "r", "s",
                  "i", "o", "n", ",", "u", "i", "n", "t", "2", "5", "6", " ",
                  "c", "h", "a", "i", "n", "I", "d", ",", "a", "d", "d", "r",
                  "e", "s", "s", " ", "v", "e", "r", "i", "f", "y", "i", "n",
                  "g", "C", "o", "n", "t", "r", "a", "c", "t", ")">>))

_AGENT_TYPEHASH ==
    keccak256(U(<<"A", "g", "e", "n", "t", "(", "s", "t", "r", "i", "n", "g",
                  " ", "s", "o", "u", "r", "c", "e", ",", "b", "y", "t", "e",
                  "s", "3", "2", " ", "c", "o", "n", "n", "e", "c", "t", "i",
                  "o", "n", "I", "d", ")">>))

N_Agent == U(<<"A", "g", "e", "n", "t">>)
F_source == U(<<"s", "o", "u", "r", "c", "e">>)
F_connectionId ==
    U(<<"c", "o", "n", "n", "e", "c", "t", "i", "o", "n", "I", "d">>)

\* int(domain["chainId"]).to_bytes(32, "big"): OverflowError for a negative
\* value and for one of more than 32 bytes
ChainWord(neg, mag) ==
    LET Go(m) == IF neg = 1 /\ m # <<>> THEN BytesRaised
                 ELSE IF Len(m) > 32 THEN BytesRaised
                 ELSE Zeros(32 - Len(m)) \o m
    IN  Go(StripZeros(mag))

\* variant: the address is padded on the right
AddrWord_ljust(addr) == addr \o Zeros(32 - Len(addr))

\* addr.rjust(32, b"\x00")
AddrWord(addr) == Zeros(32 - Len(addr)) \o addr

\* keccak256(s.encode("utf-8")); the encoding of a lone surrogate raises
HashStr(cps) ==
    LET Go(b) == IF b = UnicodeErrorRaised THEN BytesRaised ELSE keccak256(b)
    IN  Go(EncodeUtf8(cps))

\* _eip712_hash_domain(domain), the verifyingContract given as bytes
_eip712_hash_domain(domain) ==
    LET Go(name, version, chain) ==
            IF BytesRaised \in {name, version, chain} THEN BytesRaised
            ELSE keccak256(_EIP712_DOMAIN_TYPEHASH \o name \o version \o chain
                     \o AddrWord(DictItem(domain, K_verifyingContract)[2]))
    IN  Go(HashStr(DictItem(domain, K_name)[2]),
           HashStr(DictItem(domain, K_version)[2]),
           ChainWord(DictItem(domain, K_chainId)[2][1],
                     IntMag(DictItem(domain, K_chainId))))

\* _eip712_hash_agent(message)
_eip712_hash_agent(message) ==
    LET Go(source, conn) ==
            IF source = BytesRaised THEN BytesRaised
            ELSE keccak256(_AGENT_TYPEHASH \o source
                     \o SubSeq(conn \o Zeros(32 - Len(conn)), 1, 32))
    IN  Go(HashStr(DictItem(message, F_source)[2]),
           DictItem(message, F_connectionId)[2])

\* the dict {"source": source, "connectionId": connection_id}
AgentMessage(source, connection_id) ==
    << <<F_source, PyStr(source)>>,
       <<F_connectionId, PyBytes(connection_id)>> >>

\* eip712_hash_agent_message(domain, source, connection_id)
eip712_hash_agent_message(domain, source, connection_id) ==
    LET Go(domain_sep) ==
            IF domain_sep = BytesRaised THEN BytesRaised
            ELSE LET Fin(msg_hash) ==
                         IF msg_hash = BytesRaised THEN BytesRaised
                         ELSE keccak256(<<25, 1>> \o domain_sep \o msg_hash)
                 IN  Fin(_eip712_hash_agent(AgentMessage(source,
                                                         connection_id)))
    IN  Go(_eip712_hash_domain(domain))

\* the typed message of the claim: types {Agent: [source, connectionId]},
\* primaryType Agent, the same domain, message {source, connectionId}
AgentTyped(domain, source, connection_id) ==
    [domain |-> domain,
     types |-> << <<N_Agent, <<Field(F_source, T_string),
                               Field(F_connectionId, T_bytes \o Dec(32))>> >> >>,
     primaryType |-> N_Agent,
     message |-> AgentMessage(source, connection_id)]

\* 2^256, as 33 bytes
Mag_2_256 == <<1>> \o Zeros(32)

AgentChainIds ==
    {PyInt(0, Mag(0)), PyInt(0, Mag(1)), PyInt(0, MagPow2(64)),
     PyInt(0, Mag_2_256)}

\* domains of the four keys name, version, chainId and verifyingContract, in
\* two insertion orders
AgentDomains ==
    {Reorder(<< <<K_name, PyStr(name)>>, <<K_version, PyStr(U(<<"1">>))>>,
                <<K_chainId, chain>>,
                <<K_verifyingContract, PyBytes(addr)>> >>, how) :
        name \in {<<>>, U(<<"E", "t", "h", "e", "r">>)},
        chain \in AgentChainIds,
        addr \in {Address20}, how \in {"same", "reverse"}}

AgentSources == {<<>>, U(<<"H", "i">>), <<233>>, <<55296>>}

ConnectionId == [i \in 1..32 |-> 160 + i] \o <<>>

AgentInit ==
    /\ \E domain \in AgentDomains, source \in AgentSources :
          ei = [pc |-> "start", domain |-> domain, source |-> source,
                connection_id |-> ConnectionId,
                legacy |-> NotRun, full |-> NotRun]
    /\ kc = Idle /\ sp = Idle /\ ed = Idle /\ bp = Idle /\ mp = Idle

\* eip712_hash_agent_message(domain, source, connection_id)
AgentLegacy ==
    /\ ei.legacy = NotRun
    /\ ei' = [ei EXCEPT !.pc = "called",
                 !.legacy = eip712_hash_agent_message(ei.domain, ei.source,
                                                      ei.connection_id)]
    /\ UNCHANGED <<kc, sp, ed, bp, mp>>

\* eip712_hash_full_message on the typed message
AgentFull ==
    /\ ei.full = NotRun
    /\ ei' = [ei EXCEPT !.pc = "called",
                 !.full = eip712_hash_full_message(
                              AgentTyped(ei.domain, ei.source,
                                         ei.connection_id))]
    /\ UNCHANGED <<kc, sp, ed, bp, mp>>

AgentNext ==
    \/ AgentLegacy
    \/ AgentFull

SpecAgent == AgentInit /\ [][AgentNext]_vars

\* C28: on a domain of string name and version, non-negative chainId and
\* 20-byte verifyingContract, with any source and a 32-byte connection id,
\* the legacy Agent hash equals the hash of the general encoder on the typed
\* Agent message (a source or chainId that has no encoding ends both calls
\* in an error)
C28_AgentIsTyped ==
    ei.legacy # NotRun /\ ei.full # NotRun => ei.legacy = ei.full

\* both calls returned a 32-byte hash, for a chainId beyond 64 bits and a
\* domain whose keys were inserted in reverse
C28_Witness ==
    /\ ei.legacy # NotRun /\ ei.full = ei.legacy /\ Len(ei.full) = 32
    /\ ei.domain[1][1] = K_verifyingContract
    /\ DictItem(ei.domain, K_chainId) = PyInt(0, MagPow2(64))
    /\ ei.source = <<233>>


-----------------------------------------------------------------------------
(* BIP-137 verification of a caller-supplied text of any length: the decode  *)
(* into the local buffer unsigned char sig[66], then the length test.        *)

\* cdef unsigned char sig[66]
SigCapacity == 66
MaxSigLen == 96

\* a text of n Base64 characters
SigText(n) == [i \in 1..n |-> "A"] \o <<>>

SigInit ==
    /\ \E kind \in {"str", "bytes", "other"}, n \in 0..MaxSigLen :
          bp = [pc |-> "start", kind |-> kind, signature_b64 |-> SigText(n),
                dec_len |-> -1, written |-> 0, ok |-> FALSE]
    /\ kc = Idle
    /\ sp = Idle
    /\ ed = Idle
    /\ mp = Idle
    /\ ei = Idle

\* neither str nor bytes: return False
SigOther ==
    /\ bp.pc = "start" /\ bp.kind = "other"
    /\ bp' = [bp EXCEPT !.pc = "returned", !.ok = FALSE]
    /\ UNCHANGED <<kc, sp, ed, mp, ei>>

\* dec_len = EVP_DecodeBlock(sig, b64_ptr, <int>b64_len): the decoder stores
\* every decoded byte at sig; nothing bounds b64_len beforehand.  A store
\* beyond sig[65] is undefined behaviour.
SigDecode ==
    /\ bp.pc = "start" /\ bp.kind \in {"str", "bytes"}
    /\ LET Go(dec) ==
               bp' = [bp EXCEPT !.dec_len = dec[1],
                                !.written = Len(dec[2]),
                                !.pc = IF Len(dec[2]) > SigCapacity
                                       THEN "overrun" ELSE "decoded"]
       IN  Go(EVP_DecodeBlock(bp.signature_b64))
    /\ UNCHANGED <<kc, sp, ed, mp, ei>>

\* if dec_len < 65: return False; otherwise recid, r and s are read from sig
\* and the recovered key is compared (the caller passes the generator's key)
SigCheck ==
    /\ bp.pc = "decoded"
    /\ bp' = [bp EXCEPT !.pc = "returned",
                        !.ok = bip137_verify_message(
                                   <<>>, bp.signature_b64,
                                   privkey_to_pubkey(to_bytes_big(1, 32)))]
    /\ UNCHANGED <<kc, sp, ed, mp, ei>>

\* after the stores past the buffer the build may do anything: the process
\* is killed, or the call returns either answer
SigUndefined ==
    /\ bp.pc = "overrun"
    /\ \E outcome \in {"crashed", "returned"}, ok \in BOOLEAN :
          /\ outcome = "crashed" => ~ok
          /\ bp' = [bp EXCEPT !.pc = outcome, !.ok = ok]
    /\ UNCHANGED <<kc, sp, ed, mp, ei>>

SigNext ==
    \/ SigOther
    \/ SigDecode
    \/ SigCheck
    \/ SigUndefined

SpecSig == SigInit /\ [][SigNext]_vars

\* C29: whatever the length of the signature argument, the decoder stores at
\* most 66 bytes into the local buffer, and a text longer than the 88
\* characters of a signature is rejected without a store past the buffer
C29_DecodeFits ==
    /\ bp.written <= SigCapacity
    /\ bp.pc # "overrun"
    /\ bp.pc = "returned" /\ Len(bp.signature_b64) > 88 => ~bp.ok

=============================================================================
